---- MODULE Spec2Model ----
(***************************************************************************)
(* Activation controller of the dictation assistant (main process).        *)
(*                                                                         *)
(* The controller turns key-down / key-up events of the hardware Globe key *)
(* listener (macOS) and of the low-level key listener (Windows) into       *)
(* show-panel / hide-panel / start-dictation / stop-dictation / toggle     *)
(* commands, under the activation mode (tap | push) the renderer keeps in  *)
(* its local storage.                                                      *)
(*                                                                         *)
(* Every handler is `async` and suspends on `await getActivationMode()`    *)
(* before it touches the session flags, so a handler is two steps: the     *)
(* reception (code up to the await) and the resumption (code after it).    *)
(* Suspended handlers resume in the order in which they suspended.         *)
(*                                                                         *)
(* Time is the wall clock in milliseconds, advancing in steps of TickMs.   *)
(* The round trip of getActivationMode and the delivery of a renderer      *)
(* notification are shorter than one tick: the clock does not advance      *)
(* while a handler is suspended or a notification is in flight.  A timer   *)
(* that is due runs before the events of the same instant (the timers      *)
(* phase of the event loop precedes its poll phase).  A settings change,   *)
(* made by the user in the settings window, falls in a moment when no      *)
(* handler is suspended and no notification is in flight; the notification *)
(* it sends races with the key events that follow.                         *)
(***************************************************************************)
EXTENDS Integers, Sequences, FiniteSets, TLC

\* ------------------------------------------------------------------ bounds
MaxPress == 2
MaxChanges == 2
MaxTime == 350
TickMs == 50
MaxCapture == 3
MaxErrors == 2
MaxStarts == 2
MaxStops == 2
MaxSignals == 2

\* ------------------------------------------------------- program constants
MIN_HOLD_DURATION_MS == 150
WIN_MIN_HOLD_DURATION_MS == 150
START_TIMEOUT_MS == 3000

Modes == {"tap", "push"}
Hotkeys == {"F8", "F9", "GLOBE"}
Platforms == {"darwin", "win32"}

VARIABLES
  platform,             \* process.platform
  mode,                 \* localStorage "activationMode" of the renderer
  hotkey,               \* hotkeyManager.getCurrentHotkey()
  winArmed,             \* binding the low-level listener runs with, "" when stopped
  winHeld,              \* the low-level listener reported down and not yet up
  globeHeld,            \* the Globe listener reported down and not yet up
  globePressed,         \* control panel holds an unused "globe-key-pressed"
  globeKeyDownTime,
  globeKeyIsRecording,
  winKeyDownTime,
  winKeyIsRecording,
  timers,               \* pending setTimeout callbacks: [src, due, press]
  now,                  \* Date.now()
  queue,                \* handlers suspended on await getActivationMode(), FIFO
  ipc,                  \* renderer notifications in flight to ipcMain, FIFO
  log,                  \* commands sent to the dictation surface, in order
  presses,              \* history: one record per key-down an adapter reported
  cur,                  \* history: src -> id of the press the adapter reported last
  abandonedHotkey,      \* history: presses live and held when the hotkey was changed
  abandonedMode,        \* history: presses live and held when the mode left push
  nChanges,             \* history: number of settings changes so far
  capture,              \* hotkey listening (capture) mode of the hotkey manager
  gs,                   \* bindings registered with the OS global shortcut registry
  snap,                 \* history: the adapters as the last enterCaptureMode found them
  nCapture,             \* history: number of capture-mode requests so far
  pttAvailable,         \* windowManager's "Windows push-to-talk available" flag
  notices,              \* availability notifications sent to the presentation layer
  globeKeyAlertShown,
  nErrors,              \* history: number of adapter error/unavailable events so far
  isActive,             \* AudioDuckingManager.isActive
  fallbackMode,         \* AudioDuckingManager.fallbackMode
  duckerProcess,        \* AudioDuckingManager.duckerProcess: helper id, 0 for null
  savedVolumes,         \* AudioDuckingManager.savedVolumes: key -> "was_playing" | "null"
  procs,                \* helper processes spawned so far, by id
  starts,               \* startDucking calls so far, with the locals of each
  stops,                \* stopDucking calls so far: the play commands each awaits
  owed,                 \* history: key -> successful pauses minus play commands issued
  duckLevel,            \* AudioDuckingManager.duckLevel
  useAdvancedDucking,   \* AudioDuckingManager.useAdvancedDucking
  request,              \* history: the duck-audio, get-ducking-status or
                        \* configure-ducking request the last step handled, if any
  globeRunning,         \* the Globe key listener is started
  quitting,             \* app "will-quit" was emitted
  helper                \* one run of the macos-audio-ducker binary, seen from inside

armVars == <<capture, gs, snap, nCapture>>
availVars == <<pttAvailable, notices, globeKeyAlertShown, nErrors>>
confVars == <<duckLevel, useAdvancedDucking, request>>
duckVars == <<isActive, fallbackMode, duckerProcess, savedVolumes, procs, starts, stops,
              owed, confVars>>
restVars == <<armVars, availVars, duckVars>>

actVars == <<platform, mode, hotkey, winArmed, winHeld, globeHeld, globePressed,
             globeKeyDownTime, globeKeyIsRecording, winKeyDownTime, winKeyIsRecording,
             timers, now, queue, ipc, log, presses, cur, abandonedHotkey,
             abandonedMode, nChanges, globeRunning, quitting, helper>>

vars == <<actVars, restVars>>

ctrlVars == <<globeKeyDownTime, globeKeyIsRecording, winKeyDownTime, winKeyIsRecording>>
histVars == <<presses, cur, abandonedHotkey, abandonedMode>>
envVars == <<platform, mode, hotkey, nChanges, globeRunning, quitting, helper>>

\* ----------------------------------------------------------------- helpers

\* isValidHotkey: a hotkey the low-level listener can be started with.
isValidHotkey(hk) == hk # "" /\ hk # "GLOBE"

\* windowsKeyManager.start(binding): already running with the same binding is a
\* no-op, a different binding implies a stop first.  Result: <<armed, held>>.
WkmStart(armed, held, hk) == IF armed = hk THEN <<armed, held>> ELSE <<hk, FALSE>>

\* windowsKeyManager.stop(): safe in every state; the helper process is gone,
\* and with it the key state it tracked.
WkmStop == <<"", FALSE>>

\* Key Source Adapter contract: one physical hold surfaces as one down followed
\* by one up, never as a stream of downs.
AdapterReportsDown(held) == ~held
AdapterReportsUp(held) == held

\* startWindowsKeyListener: the listener as the delayed startup step leaves it.
startWindowsKeyListener(plat, activationMode, currentHotkey) ==
  IF plat = "win32" /\ activationMode = "push" /\ isValidHotkey(currentHotkey)
  THEN currentHotkey ELSE ""

\* A hold-timer callback that does not test the recording flag.
HoldTimerStarts_IgnoresRecording(keyDownTime, keyIsRecording) == keyDownTime > 0

\* The condition under which a hold-timer callback starts the recording.
HoldTimerStarts(keyDownTime, keyIsRecording) == keyDownTime > 0 /\ ~keyIsRecording

\* A key-down handler that arms the hold timer outside the push branch.
ArmsHoldTimer_Always(activationMode) == activationMode \in {"push", "tap"}

\* Whether a key-down handler arms the hold timer.
ArmsHoldTimer(activationMode) == activationMode = "push"

\* Commands of the globe-down handler after the await.
GlobeDownCmds(activationMode) ==
  IF activationMode = "push" THEN <<"show-panel">>
  ELSE <<"show-panel", "toggle-dictation">>

\* Commands of the globe-up handler after the await.
GlobeUpCmds(activationMode, isRecording) ==
  IF activationMode = "push" /\ isRecording THEN <<"stop-dictation">> ELSE <<>>

\* Commands of the Windows key-down handler after the await.
WinDownCmds_NoShow(activationMode) == <<>>

WinDownCmds(activationMode) ==
  IF activationMode = "push" THEN <<"show-panel">> ELSE <<>>

\* Commands of the Windows key-up handler after the await.
WinUpCmds(activationMode, wasRecording) ==
  IF activationMode # "push" THEN <<>>
  ELSE IF wasRecording THEN <<"stop-dictation">> ELSE <<"hide-panel">>

\* Whether the globe handlers take the event for dictation.
GlobeIsHotkey(currentHotkey) == currentHotkey = "GLOBE"

\* A hotkey-changed handler that leaves the running listener as it is.
HotkeyChangedListener_KeepsOld(activationMode, armed, held, newHotkey) ==
  <<armed, held>>

\* The listener after the hotkey-changed handler resumed: <<armed, held>>.
HotkeyChangedListener(activationMode, armed, held, newHotkey) ==
  IF activationMode = "push"
  THEN IF isValidHotkey(newHotkey) THEN WkmStart("", FALSE, newHotkey) ELSE WkmStop
  ELSE <<armed, held>>

\* The listener after the activation-mode-changed handler: <<armed, held>>.
ModeChangedListener(newMode, armed, held, currentHotkey) ==
  IF newMode = "push"
  THEN IF isValidHotkey(currentHotkey) THEN WkmStart(armed, held, currentHotkey)
       ELSE <<armed, held>>
  ELSE WkmStop

\* windowManager.getActivationMode(): the mode the renderer stores, as read when
\* the awaiting handler resumes.
getActivationMode == mode

\* hotkeyManager at startup: the saved hotkey is registered as a global
\* shortcut, unless it is the Globe key, which has its own listener.
initializeHotkey(currentHotkey) ==
  IF currentHotkey = "GLOBE" THEN {} ELSE {currentHotkey}

\* windowManager.updateHotkey: the hotkey manager takes the new hotkey; the
\* global shortcut is re-registered (old binding out, new binding in) only if
\* it is not suspended for capture.
updateHotkey(listening, registered, oldHotkey, newHotkey) ==
  IF listening THEN registered
  ELSE (registered \ {oldHotkey}) \cup initializeHotkey(newHotkey)

\* The adapters as enterCaptureMode found them; `open` while no exit followed.
NoSnap == [gs |-> {}, win |-> "", changes |-> 0, caps |-> 0, arg |-> "", old |-> "",
           state |-> "none"]

\* A handler whose continuation overtakes the handlers suspended before it.
Suspend_Overtakes(q, handler) == <<handler>> \o q

\* `await windowManager.getActivationMode()`: the handler suspends; its
\* continuation runs after those of the handlers that suspended before it.
Suspend(q, handler) == Append(q, handler)

NoTimerDue == \A t \in timers : t.due > now

Abandoned == abandonedHotkey \cup abandonedMode

\* The log grown by the commands cmds of press p of source s, sent from `via`.
Emit(cmds, s, via, p) ==
  log \o [i \in 1..Len(cmds) |->
            [cmd |-> cmds[i], src |-> s, via |-> via, press |-> p,
             abH |-> p \in abandonedHotkey, ab |-> p \in Abandoned,
             afterUp |-> presses[p].modeUp = "push", cap |-> capture]]

NewPress(s, binding) ==
  [src |-> s, binding |-> binding, downAt |-> now, upAt |-> -1,
   modeDown |-> "none", modeUp |-> "none", lo |-> -1, hi |-> -1,
   armed |-> FALSE, liveAtDown |-> FALSE, closed |-> FALSE]

\* The session of source s is live (keyDownTime > 0) and the press that opened
\* it, the last press before p handled in push mode, has not been released.
LiveAndHeld(s, keyDownTime, p) ==
  /\ keyDownTime > 0
  /\ \E q \in 1..(p - 1) :
       /\ presses[q].src = s /\ presses[q].modeDown = "push"
       /\ presses[q].upAt = -1
       /\ \A r \in (q + 1)..(p - 1) : presses[r].modeDown # "push"

\* A press of source s that is held and whose key-down opened a push session.
HeldPush(s, heldNow) ==
  heldNow /\ cur[s] # 0 /\ presses[cur[s]].modeDown = "push"
          /\ presses[cur[s]].modeUp = "none"

TypeOK ==
  /\ platform \in Platforms /\ mode \in Modes /\ hotkey \in Hotkeys
  /\ winArmed \in Hotkeys \cup {""}
  /\ winHeld \in BOOLEAN /\ globeHeld \in BOOLEAN /\ globePressed \in BOOLEAN
  /\ globeKeyDownTime \in 0..MaxTime /\ winKeyDownTime \in 0..MaxTime
  /\ globeKeyIsRecording \in BOOLEAN /\ winKeyIsRecording \in BOOLEAN
  /\ now \in 1..MaxTime
  /\ Len(presses) <= MaxPress /\ nChanges <= MaxChanges
  /\ capture \in BOOLEAN /\ gs \subseteq Hotkeys
  /\ nCapture \in 0..MaxCapture /\ nErrors \in 0..MaxErrors
  /\ pttAvailable \in BOOLEAN /\ globeKeyAlertShown \in BOOLEAN
  /\ Len(notices) <= MaxErrors
  /\ isActive \in BOOLEAN /\ fallbackMode \in BOOLEAN
  /\ duckerProcess \in 0..MaxStarts
  /\ Len(procs) <= MaxStarts /\ Len(starts) <= MaxStarts /\ Len(stops) <= MaxStops

\* -------------------------------------------------------------------- Init

Init ==
  /\ platform \in Platforms
  /\ mode \in Modes
  /\ hotkey \in Hotkeys
  /\ winArmed = startWindowsKeyListener(platform, mode, hotkey)
  /\ winHeld = FALSE /\ globeHeld = FALSE /\ globePressed = FALSE
  /\ globeRunning = (platform = "darwin") /\ quitting = FALSE
  /\ helper = [pc |-> "none"]
  /\ globeKeyDownTime = 0 /\ globeKeyIsRecording = FALSE
  /\ winKeyDownTime = 0 /\ winKeyIsRecording = FALSE
  /\ timers = {}
  /\ now = TickMs
  /\ queue = <<>> /\ ipc = <<>> /\ log = <<>>
  /\ presses = <<>>
  /\ cur = [s \in {"globe", "win"} |-> 0]
  /\ abandonedHotkey = {} /\ abandonedMode = {}
  /\ nChanges = 0
  /\ capture = FALSE
  /\ gs = initializeHotkey(hotkey)
  /\ snap = NoSnap
  /\ nCapture = 0
  /\ pttAvailable = FALSE
  /\ notices = <<>>
  /\ globeKeyAlertShown = FALSE
  /\ nErrors = 0
  /\ isActive = FALSE
  /\ fallbackMode = FALSE
  /\ duckerProcess = 0
  /\ savedVolumes = [k \in {"music", "spotify"} |-> "null"]
  /\ procs = <<>> /\ starts = <<>> /\ stops = <<>>
  /\ owed = [k \in {"music", "spotify"} |-> 0]
  /\ duckLevel = "default"
  /\ useAdvancedDucking = FALSE
  /\ request = [op |-> "none"]

\* ------------------------------------------------------- Globe key (macOS)

\* globe-down up to the await: forward to the control panel, test the hotkey.
GlobeDown ==
  /\ platform = "darwin" /\ globeRunning /\ NoTimerDue
  /\ AdapterReportsDown(globeHeld) /\ Len(presses) < MaxPress
  /\ globeHeld' = TRUE
  /\ globePressed' = TRUE
  /\ presses' = Append(presses, NewPress("globe", "GLOBE"))
  /\ cur' = [cur EXCEPT !["globe"] = Len(presses) + 1]
  /\ queue' = IF GlobeIsHotkey(hotkey)
              THEN Suspend(queue, [kind |-> "globe-down", press |-> Len(presses) + 1,
                                  arg |-> ""])
              ELSE queue
  /\ UNCHANGED <<restVars, envVars, winArmed, winHeld, ctrlVars, timers, now, ipc, log,
                 abandonedHotkey, abandonedMode>>

\* globe-down after the await.
GlobeDownResume ==
  /\ queue # <<>> /\ Head(queue).kind = "globe-down" /\ NoTimerDue
  /\ LET p == Head(queue).press
         activationMode == getActivationMode
     IN /\ log' = Emit(GlobeDownCmds(activationMode), "globe", "down", p)
        /\ IF ArmsHoldTimer(activationMode)
           THEN /\ globeKeyDownTime' = now
                /\ globeKeyIsRecording' = FALSE
                /\ timers' = timers \cup
                     {[src |-> "globe", due |-> now + MIN_HOLD_DURATION_MS, press |-> p]}
           ELSE UNCHANGED <<globeKeyDownTime, globeKeyIsRecording, timers>>
        /\ presses' = [presses EXCEPT ![p].modeDown = activationMode,
                                      ![p].lo = Len(log),
                                      ![p].armed = \E t \in timers' : t.press = p,
                                      ![p].liveAtDown = LiveAndHeld("globe", globeKeyDownTime, p)]
  /\ queue' = Tail(queue)
  /\ UNCHANGED <<restVars, envVars, winArmed, winHeld, globeHeld, globePressed,
                 winKeyDownTime, winKeyIsRecording, now, ipc, cur,
                 abandonedHotkey, abandonedMode>>

\* The hold timer armed by globe-down.
GlobeHoldTimer ==
  \E t \in timers :
    /\ t.src = "globe" /\ t.due <= now
    /\ \A u \in timers : u.due > t.due \/ (u.due = t.due /\ u.press >= t.press)
    /\ timers' = timers \ {t}
    /\ IF HoldTimerStarts(globeKeyDownTime, globeKeyIsRecording)
       THEN /\ globeKeyIsRecording' = TRUE
            /\ log' = Emit(<<"start-dictation">>, "globe", "timer", t.press)
       ELSE UNCHANGED <<globeKeyIsRecording, log>>
    /\ UNCHANGED <<restVars, envVars, winArmed, winHeld, globeHeld, globePressed,
                   globeKeyDownTime, winKeyDownTime, winKeyIsRecording, now, queue,
                   ipc, histVars>>

\* globe-up up to the await.
GlobeUp ==
  /\ platform = "darwin" /\ globeRunning /\ NoTimerDue
  /\ AdapterReportsUp(globeHeld)
  /\ globeHeld' = FALSE
  /\ globePressed' = FALSE
  /\ presses' = [presses EXCEPT ![cur["globe"]].upAt = now]
  /\ queue' = IF GlobeIsHotkey(hotkey)
              THEN Suspend(queue, [kind |-> "globe-up", press |-> cur["globe"],
                                  arg |-> ""])
              ELSE queue
  /\ UNCHANGED <<restVars, envVars, winArmed, winHeld, ctrlVars, timers, now, ipc, log, cur,
                 abandonedHotkey, abandonedMode>>

\* globe-up after the await.
GlobeUpResume ==
  /\ queue # <<>> /\ Head(queue).kind = "globe-up" /\ NoTimerDue
  /\ LET p == Head(queue).press
         activationMode == getActivationMode
     IN /\ log' = Emit(GlobeUpCmds(activationMode, globeKeyIsRecording),
                       "globe", "up", p)
        /\ IF activationMode = "push"
           THEN /\ globeKeyDownTime' = 0
                /\ globeKeyIsRecording' = FALSE
           ELSE UNCHANGED <<globeKeyDownTime, globeKeyIsRecording>>
        /\ presses' = [presses EXCEPT ![p].modeUp = activationMode,
                                      ![p].hi = Len(log'),
                                      ![p].closed = (globeKeyDownTime' = 0
                                                     /\ ~globeKeyIsRecording')]
  /\ queue' = Tail(queue)
  /\ UNCHANGED <<restVars, envVars, winArmed, winHeld, globeHeld, globePressed,
                 winKeyDownTime, winKeyIsRecording, timers, now, ipc, cur,
                 abandonedHotkey, abandonedMode>>

\* ------------------------------------------- low-level listener (Windows)

\* key-down up to the await.
WinKeyDown ==
  /\ platform = "win32" /\ NoTimerDue
  /\ winArmed # "" /\ AdapterReportsDown(winHeld) /\ Len(presses) < MaxPress
  /\ winHeld' = TRUE
  /\ presses' = Append(presses, NewPress("win", winArmed))
  /\ cur' = [cur EXCEPT !["win"] = Len(presses) + 1]
  /\ queue' = Suspend(queue, [kind |-> "key-down", press |-> Len(presses) + 1,
                             arg |-> ""])
  /\ UNCHANGED <<restVars, envVars, winArmed, globeHeld, globePressed, ctrlVars, timers, now,
                 ipc, log, abandonedHotkey, abandonedMode>>

\* key-down after the await.
WinKeyDownResume ==
  /\ queue # <<>> /\ Head(queue).kind = "key-down" /\ NoTimerDue
  /\ LET p == Head(queue).press
         activationMode == getActivationMode
     IN /\ log' = Emit(WinDownCmds(activationMode), "win", "down", p)
        /\ IF ArmsHoldTimer(activationMode)
           THEN /\ winKeyDownTime' = now
                /\ winKeyIsRecording' = FALSE
                /\ timers' = timers \cup
                     {[src |-> "win", due |-> now + WIN_MIN_HOLD_DURATION_MS,
                       press |-> p]}
           ELSE UNCHANGED <<winKeyDownTime, winKeyIsRecording, timers>>
        /\ presses' = [presses EXCEPT ![p].modeDown = activationMode,
                                      ![p].lo = Len(log),
                                      ![p].armed = \E t \in timers' : t.press = p,
                                      ![p].liveAtDown = LiveAndHeld("win", winKeyDownTime, p)]
  /\ queue' = Tail(queue)
  /\ UNCHANGED <<restVars, envVars, winArmed, winHeld, globeHeld, globePressed,
                 globeKeyDownTime, globeKeyIsRecording, now, ipc, cur,
                 abandonedHotkey, abandonedMode>>

\* The hold timer armed by key-down.
WinHoldTimer ==
  \E t \in timers :
    /\ t.src = "win" /\ t.due <= now
    /\ \A u \in timers : u.due > t.due \/ (u.due = t.due /\ u.press >= t.press)
    /\ timers' = timers \ {t}
    /\ IF HoldTimerStarts(winKeyDownTime, winKeyIsRecording)
       THEN /\ winKeyIsRecording' = TRUE
            /\ log' = Emit(<<"start-dictation">>, "win", "timer", t.press)
       ELSE UNCHANGED <<winKeyIsRecording, log>>
    /\ UNCHANGED <<restVars, envVars, winArmed, winHeld, globeHeld, globePressed,
                   globeKeyDownTime, globeKeyIsRecording, winKeyDownTime, now, queue,
                   ipc, histVars>>

\* key-up up to the await.
WinKeyUp ==
  /\ platform = "win32" /\ NoTimerDue
  /\ winArmed # "" /\ AdapterReportsUp(winHeld)
  /\ winHeld' = FALSE
  /\ presses' = [presses EXCEPT ![cur["win"]].upAt = now]
  /\ queue' = Suspend(queue, [kind |-> "key-up", press |-> cur["win"], arg |-> ""])
  /\ UNCHANGED <<restVars, envVars, winArmed, globeHeld, globePressed, ctrlVars, timers, now,
                 ipc, log, cur, abandonedHotkey, abandonedMode>>

\* key-up after the await.
WinKeyUpResume ==
  /\ queue # <<>> /\ Head(queue).kind = "key-up" /\ NoTimerDue
  /\ LET p == Head(queue).press
         activationMode == getActivationMode
         wasRecording == winKeyIsRecording
     IN /\ log' = Emit(WinUpCmds(activationMode, wasRecording), "win", "up", p)
        /\ IF activationMode = "push"
           THEN /\ winKeyDownTime' = 0
                /\ winKeyIsRecording' = FALSE
           ELSE UNCHANGED <<winKeyDownTime, winKeyIsRecording>>
        /\ presses' = [presses EXCEPT ![p].modeUp = activationMode,
                                      ![p].hi = Len(log'),
                                      ![p].closed = (winKeyDownTime' = 0
                                                     /\ ~winKeyIsRecording')]
  /\ queue' = Tail(queue)
  /\ UNCHANGED <<restVars, envVars, winArmed, winHeld, globeHeld, globePressed,
                 globeKeyDownTime, globeKeyIsRecording, timers, now, ipc, cur,
                 abandonedHotkey, abandonedMode>>

\* ------------------------------------------------------ settings (renderer)

\* setActivationMode: store the mode, then notify the main process.  The
\* notification has a handler on Windows only.
SetActivationMode(m) ==
  /\ NoTimerDue /\ nChanges < MaxChanges
  /\ queue = <<>> /\ ipc = <<>>
  /\ m # mode
  /\ mode' = m
  /\ nChanges' = nChanges + 1
  /\ ipc' = IF platform = "win32"
            THEN Append(ipc, [kind |-> "activation-mode-changed", arg |-> m])
            ELSE ipc
  /\ abandonedMode' =
       IF platform = "darwin" /\ m = "tap" /\ HeldPush("globe", globeHeld)
          /\ GlobeIsHotkey(hotkey)
       THEN abandonedMode \cup {cur["globe"]} ELSE abandonedMode
  /\ UNCHANGED <<restVars, platform, hotkey, winArmed, winHeld, globeHeld, globePressed,
                 globeRunning, quitting, helper,
                 ctrlVars, timers, now, queue, log, presses, cur, abandonedHotkey>>

\* registerHotkey then setDictationKey: the hotkey manager takes the new hotkey
\* (update-hotkey), then the renderer notifies the main process.  The Globe key
\* is bound by capturing a press of it (globe-key-pressed).
UpdateHotkey(h) ==
  /\ NoTimerDue /\ nChanges < MaxChanges
  /\ queue = <<>> /\ ipc = <<>>
  /\ h # hotkey
  /\ (platform = "darwin" /\ h = "GLOBE") => globePressed
  /\ hotkey' = h
  /\ globePressed' = FALSE
  /\ nChanges' = nChanges + 1
  /\ ipc' = IF platform = "win32"
            THEN Append(ipc, [kind |-> "hotkey-changed", arg |-> h])
            ELSE ipc
  /\ abandonedHotkey' =
       IF platform = "darwin" /\ GlobeIsHotkey(hotkey) /\ HeldPush("globe", globeHeld)
       THEN abandonedHotkey \cup {cur["globe"]} ELSE abandonedHotkey
  /\ gs' = updateHotkey(capture, gs, hotkey, h)
  /\ UNCHANGED <<capture, snap, nCapture, availVars, duckVars>>
  /\ UNCHANGED <<platform, mode, winArmed, winHeld, globeHeld, ctrlVars, timers, now,
                 globeRunning, quitting, helper,
                 queue, log, presses, cur, abandonedMode>>

\* ipcMain.on("activation-mode-changed"): no await, runs on delivery.
ActivationModeChanged ==
  /\ ipc # <<>> /\ Head(ipc).kind = "activation-mode-changed" /\ NoTimerDue
  /\ LET r == ModeChangedListener(Head(ipc).arg, winArmed, winHeld, hotkey)
     IN /\ winArmed' = r[1]
        /\ winHeld' = r[2]
        /\ abandonedMode' =
             IF HeldPush("win", winHeld) /\ ~r[2]
             THEN abandonedMode \cup {cur["win"]} ELSE abandonedMode
  /\ ipc' = Tail(ipc)
  /\ UNCHANGED <<restVars, envVars, globeHeld, globePressed, ctrlVars, timers, now, queue, log,
                 presses, cur, abandonedHotkey>>

\* ipcMain.on("hotkey-changed") up to the await.
HotkeyChanged ==
  /\ ipc # <<>> /\ Head(ipc).kind = "hotkey-changed" /\ NoTimerDue
  /\ queue' = Suspend(queue, [kind |-> "hotkey-changed", press |-> 0,
                             arg |-> Head(ipc).arg])
  /\ ipc' = Tail(ipc)
  /\ UNCHANGED <<restVars, envVars, winArmed, winHeld, globeHeld, globePressed, ctrlVars,
                 timers, now, log, histVars>>

\* ipcMain.on("hotkey-changed") after the await.
HotkeyChangedResume ==
  /\ queue # <<>> /\ Head(queue).kind = "hotkey-changed" /\ NoTimerDue
  /\ LET activationMode == getActivationMode
         r == HotkeyChangedListener(activationMode, winArmed, winHeld,
                                    Head(queue).arg)
     IN /\ winArmed' = r[1]
        /\ winHeld' = r[2]
        /\ abandonedHotkey' =
             IF HeldPush("win", winHeld) /\ activationMode = "push"
             THEN abandonedHotkey \cup {cur["win"]} ELSE abandonedHotkey
  /\ queue' = Tail(queue)
  /\ UNCHANGED <<restVars, envVars, globeHeld, globePressed, ctrlVars, timers, now, ipc, log,
                 presses, cur, abandonedMode>>

\* ------------------------------------------------------------------- clock

\* A held key whose press has not yet lasted the hold threshold.
HeldBelowThreshold(s, heldNow) ==
  heldNow /\ cur[s] # 0 /\ now - presses[cur[s]].downAt < MIN_HOLD_DURATION_MS

\* Time passes while it makes a difference: a timer is pending, or a key is
\* held and has not yet been held for the hold threshold.
Tick ==
  /\ queue = <<>> /\ ipc = <<>> /\ NoTimerDue
  /\ \/ timers # {}
     \/ HeldBelowThreshold("globe", globeHeld)
     \/ HeldBelowThreshold("win", winHeld)
  /\ now + TickMs <= MaxTime
  /\ now' = now + TickMs
  /\ UNCHANGED <<restVars, envVars, winArmed, winHeld, globeHeld, globePressed, ctrlVars,
                 timers, queue, ipc, log, histVars>>

Next ==
  \/ GlobeDown
  \/ GlobeDownResume
  \/ GlobeHoldTimer
  \/ GlobeUp
  \/ GlobeUpResume
  \/ WinKeyDown
  \/ WinKeyDownResume
  \/ WinHoldTimer
  \/ WinKeyUp
  \/ WinKeyUpResume
  \/ \E m \in Modes : SetActivationMode(m)
  \/ \E h \in Hotkeys : UpdateHotkey(h)
  \/ ActivationModeChanged
  \/ HotkeyChanged
  \/ HotkeyChangedResume
  \/ Tick

Spec == Init /\ [][Next]_vars

\* ------------------------------------------- capture mode (ipcHandlers.js)

\* set-hotkey-listening-mode: the hotkey the handler works with.
effectiveHotkey(enabled, newHotkey, currentHotkey) ==
  IF ~enabled /\ newHotkey # "" THEN newHotkey ELSE currentHotkey

\* Entering: globalShortcut.unregister(currentHotkey), unless it is GLOBE.
EnterUnregisters(registered, currentHotkey) ==
  IF currentHotkey # "" /\ currentHotkey # "GLOBE"
  THEN registered \ {currentHotkey} ELSE registered

\* Exiting: globalShortcut.register(effectiveHotkey) if it is not registered.
ExitRegisters(registered, effective) ==
  IF effective # "" /\ effective # "GLOBE" /\ effective \notin registered
  THEN registered \cup {effective} ELSE registered

\* Exiting, after the await: the low-level listener, <<armed, held>>.
ExitListener(activationMode, armed, held, effective) ==
  IF activationMode = "push" /\ effective # "" /\ effective # "GLOBE"
  THEN WkmStart(armed, held, effective) ELSE <<armed, held>>

\* set-hotkey-listening-mode(true).
EnterCaptureMode ==
  /\ NoTimerDue /\ nCapture < MaxCapture
  /\ queue = <<>> /\ ipc = <<>>
  /\ capture' = TRUE
  /\ gs' = EnterUnregisters(gs, hotkey)
  /\ IF platform = "win32"
     THEN winArmed' = WkmStop[1] /\ winHeld' = WkmStop[2]
     ELSE UNCHANGED <<winArmed, winHeld>>
  /\ snap' = IF capture THEN [snap EXCEPT !.state = "none"]
             ELSE [gs |-> gs, win |-> winArmed, changes |-> nChanges,
                   caps |-> nCapture + 1, arg |-> "", old |-> hotkey,
                   state |-> "entered"]
  /\ nCapture' = nCapture + 1
  /\ UNCHANGED <<envVars, globeHeld, globePressed, ctrlVars, timers, now, queue, ipc,
                 log, histVars, availVars, duckVars>>

\* set-hotkey-listening-mode(false, newHotkey) up to the await (Windows), or
\* the whole handler (macOS).
ExitCaptureMode(newHotkey) ==
  /\ NoTimerDue /\ nCapture < MaxCapture
  /\ queue = <<>> /\ ipc = <<>>
  /\ LET effective == effectiveHotkey(FALSE, newHotkey, hotkey)
         paired == capture /\ snap.state = "entered" /\ snap.caps = nCapture
                   /\ snap.changes = nChanges
     IN /\ capture' = FALSE
        /\ gs' = ExitRegisters(gs, effective)
        /\ queue' = IF platform = "win32"
                    THEN Suspend(queue, [kind |-> "exit-capture", press |-> 0,
                                         arg |-> effective])
                    ELSE queue
        /\ snap' = IF paired
                   THEN [snap EXCEPT !.arg = newHotkey,
                                     !.state = IF platform = "win32" THEN "exiting"
                                               ELSE "restored"]
                   ELSE [snap EXCEPT !.state = IF capture THEN "none" ELSE "again"]
  /\ nCapture' = nCapture + 1
  /\ UNCHANGED <<envVars, winArmed, winHeld, globeHeld, globePressed, ctrlVars,
                 timers, now, ipc, log, histVars, availVars, duckVars>>

\* set-hotkey-listening-mode(false, newHotkey) after the await (Windows).
ExitCaptureModeResume ==
  /\ queue # <<>> /\ Head(queue).kind = "exit-capture" /\ NoTimerDue
  /\ LET activationMode == getActivationMode
         r == ExitListener(activationMode, winArmed, winHeld, Head(queue).arg)
     IN /\ winArmed' = r[1]
        /\ winHeld' = r[2]
  /\ snap' = [snap EXCEPT !.state = CASE snap.state = "exiting" -> "restored"
                                      [] snap.state = "again" -> "againDone"
                                      [] OTHER -> snap.state]
  /\ queue' = Tail(queue)
  /\ UNCHANGED <<envVars, globeHeld, globePressed, ctrlVars, timers, now, ipc, log,
                 histVars, capture, gs, nCapture, availVars, duckVars>>

\* ------------------------------------------------ global shortcut adapter

\* Whether the global shortcut callback takes a press for dictation: on
\* Windows in push mode the low-level listener is the source that counts.
GsRelevant(plat, activationMode) == ~(plat = "win32" /\ activationMode = "push")

\* Commands of the global shortcut callback after the await.
GsCmds(plat, activationMode) ==
  IF GsRelevant(plat, activationMode) THEN <<"show-panel", "toggle-dictation">>
  ELSE <<>>

\* A registered global shortcut is pressed: the callback up to the await.  In
\* listening mode the callback returns at once.
GsPress ==
  /\ NoTimerDue /\ Len(presses) < MaxPress
  /\ \E b \in gs :
       /\ presses' = Append(presses, [NewPress("gs", b) EXCEPT !.upAt = now])
       /\ queue' = IF capture THEN queue
                   ELSE Suspend(queue, [kind |-> "gs-press", press |-> Len(presses) + 1,
                                        arg |-> b])
  /\ UNCHANGED <<envVars, winArmed, winHeld, globeHeld, globePressed, ctrlVars,
                 timers, now, ipc, log, cur, abandonedHotkey, abandonedMode, restVars>>

\* The global shortcut callback after the await.
GsPressResume ==
  /\ queue # <<>> /\ Head(queue).kind = "gs-press" /\ NoTimerDue
  /\ LET p == Head(queue).press
         activationMode == getActivationMode
     IN /\ log' = Emit(GsCmds(platform, activationMode), "gs", "down", p)
        /\ presses' = [presses EXCEPT ![p].modeDown = activationMode,
                                      ![p].lo = Len(log), ![p].hi = Len(log')]
  /\ queue' = Tail(queue)
  /\ UNCHANGED <<envVars, winArmed, winHeld, globeHeld, globePressed, ctrlVars,
                 timers, now, ipc, cur, abandonedHotkey, abandonedMode, restVars>>

\* ------------------------------------------------- adapter availability

\* windowsKeyManager "error" / "unavailable": the flag, the notification.
WinUnavailableNotice(reason) == [src |-> "win", reason |-> reason]

\* windowsKeyManager.on("error").
WinError ==
  /\ platform = "win32" /\ nErrors < MaxErrors
  /\ pttAvailable' = FALSE
  /\ notices' = Append(notices, WinUnavailableNotice("error"))
  /\ nErrors' = nErrors + 1
  /\ UNCHANGED <<envVars, winArmed, winHeld, globeHeld, globePressed, ctrlVars,
                 timers, now, queue, ipc, log, histVars, armVars, globeKeyAlertShown, duckVars>>

\* windowsKeyManager.on("unavailable").
WinUnavailable ==
  /\ platform = "win32" /\ nErrors < MaxErrors
  /\ pttAvailable' = FALSE
  /\ notices' = Append(notices, WinUnavailableNotice("binary_not_found"))
  /\ nErrors' = nErrors + 1
  /\ UNCHANGED <<envVars, winArmed, winHeld, globeHeld, globePressed, ctrlVars,
                 timers, now, queue, ipc, log, histVars, armVars, globeKeyAlertShown, duckVars>>

\* windowsKeyManager.on("ready"): the listener that was started reports in.
WinReady ==
  /\ platform = "win32" /\ winArmed # "" /\ ~pttAvailable
  /\ pttAvailable' = TRUE
  /\ UNCHANGED <<envVars, winArmed, winHeld, globeHeld, globePressed, ctrlVars,
                 timers, now, queue, ipc, log, histVars, armVars, notices,
                 globeKeyAlertShown, nErrors, duckVars>>

\* globeKeyManager.on("error"): the warning dialog, shown once.
GlobeError ==
  /\ platform = "darwin" /\ nErrors < MaxErrors
  /\ IF globeKeyAlertShown
     THEN UNCHANGED <<globeKeyAlertShown, notices>>
     ELSE /\ globeKeyAlertShown' = TRUE
          /\ notices' = Append(notices, [src |-> "globe", reason |-> "error"])
  /\ nErrors' = nErrors + 1
  /\ UNCHANGED <<envVars, winArmed, winHeld, globeHeld, globePressed, ctrlVars,
                 timers, now, queue, ipc, log, histVars, armVars, pttAvailable, duckVars>>

\* The arming of the adapters: settings changes and capture mode.
NextAdapters ==
  \/ \E m \in Modes : SetActivationMode(m)
  \/ \E h \in Hotkeys : UpdateHotkey(h)
  \/ ActivationModeChanged
  \/ HotkeyChanged
  \/ HotkeyChangedResume
  \/ EnterCaptureMode
  \/ \E nh \in Hotkeys \cup {""} : ExitCaptureMode(nh)
  \/ ExitCaptureModeResume

SpecAdapters == Init /\ [][NextAdapters]_vars

\* The adapters and their key events.  Keys are tapped: no time passes between
\* a key-down and its key-up, so no hold timer comes due.
NextCapture ==
  \/ NextAdapters
  \/ GlobeDown
  \/ GlobeDownResume
  \/ GlobeUp
  \/ GlobeUpResume
  \/ WinKeyDown
  \/ WinKeyDownResume
  \/ WinKeyUp
  \/ WinKeyUpResume
  \/ GsPress
  \/ GsPressResume

SpecCapture == Init /\ [][NextCapture]_vars

\* The key handlers and the availability events of the adapters.
NextAvail ==
  \/ GlobeDown
  \/ GlobeDownResume
  \/ GlobeHoldTimer
  \/ GlobeUp
  \/ GlobeUpResume
  \/ WinKeyDown
  \/ WinKeyDownResume
  \/ WinHoldTimer
  \/ WinKeyUp
  \/ WinKeyUpResume
  \/ GsPress
  \/ GsPressResume
  \/ Tick
  \/ WinError
  \/ WinUnavailable
  \/ WinReady
  \/ GlobeError

SpecAvail == Init /\ [][NextAvail]_vars

\* ============================================================================
\* Audio ducking manager (AudioDuckingManager)
\*
\* startDucking and stopDucking are async methods.  A step of the model is one
\* turn of the event loop: a call up to its first await on something external,
\* or one callback (helper output, helper exit, spawn error, start timeout,
\* osascript completion) together with the continuations it resolves, which
\* run as microtasks before the next event.  The helper process and the
\* osascript commands answer at any time, in any order.  Start timeouts have
\* one delay, so they run in the order of their calls; a timeout that is due
\* runs before the events of the same instant.
\* ============================================================================

Players == {"music", "spotify"}

NoProbes == [k \in Players |-> "none"]

\* The options of startDucking and configure: level is a level name or ""
\* (not given: undefined and "" are both falsy), advanced is a boolean or
\* undefined.
OptionValues == [level : {"", "max"}, advanced : {"undefined", "true", "false"}]
NoOptions == [level |-> "", advanced |-> "undefined"]

NoRequestYet == [op |-> "none"]

\* The step handles no request with options or an answer of interest; the
\* defaults are written by configure only.
NoRequest == request' = NoRequestYet /\ UNCHANGED <<duckLevel, useAdvancedDucking>>

\* startDucking: "options.level || this.duckLevel".
LevelArg(options, default) == IF options.level # "" THEN options.level ELSE default

\* startDucking: "options.advanced ?? this.useAdvancedDucking".
AdvancedArg(options, default) ==
  IF options.advanced # "undefined" THEN options.advanced = "true" ELSE default

\* startNativeDucking: args = ["start", "--level", level] and "--advanced";
\* history: the request of the step keeps the arguments of its spawn.
SpawnArgs(options) ==
  [level |-> LevelArg(options, duckLevel),
   advanced |-> AdvancedArg(options, useAdvancedDucking)]

\* One startDucking call: its position, the helper it spawned (0: none), the
\* local `started` and the state of the promise of startNativeDucking, the
\* milliseconds left on its setTimeout (-1: none pending), its two
\* pauseMusicApp promises and whether one of them resolved true, the value
\* the call returned, and whether its promise was settled by the timeout and
\* stopDucking has not been called since it returned.
NewStart ==
  [phase |-> "done", proc |-> 0, started |-> FALSE, settled |-> FALSE, due |-> -1,
   probe |-> NoProbes, anyPaused |-> FALSE, result |-> "pending", timedOut |-> FALSE]

NoDuckTimerDue == \A c \in 1..Len(starts) : starts[c].due # 0

\* startDucking: "if (this.isActive) return true".
AlreadyActive_Never(active) == FALSE

AlreadyActive(active) == active

\* startDucking after the native attempt: success returns true, anything else
\* goes on to startAppleScriptDucking.
RunsFallback_Never(nativeSuccess) == FALSE

RunsFallback(nativeSuccess) == ~nativeSuccess

\* startAppleScriptDucking after Promise.all: "this.isActive = anyPaused || true".
FallbackActive(anyPaused) == anyPaused \/ TRUE

Returned(value) == IF value THEN "true" ELSE "false"

\* The record of a startDucking call after its native promise got
\* resolve(value): the first resolve settles the promise and the call goes on,
\* to its return or into startAppleScriptDucking up to its await; a later
\* resolve does nothing.
resolve_Never(r, value) == r

resolve(r, value) ==
  IF r.settled THEN r
  ELSE IF RunsFallback(value)
       THEN [r EXCEPT !.settled = TRUE, !.phase = "probing",
                      !.probe = [k \in Players |-> "check"]]
       ELSE [r EXCEPT !.settled = TRUE, !.phase = "done", !.result = Returned(value)]

\* startAppleScriptDucking sets the flag before its first await.
FallbackModeAfter(r, value, current) ==
  IF ~r.settled /\ RunsFallback(value) THEN TRUE ELSE current

\* stopNativeDucking: SIGTERM to the process the handle names, handle cleared.
KillHandle(ps, handle) ==
  IF handle = 0 THEN ps ELSE [ps EXCEPT ![handle].killed = TRUE]

\* History: a new call is received, so what the start calls that have
\* returned found while probing is no longer of interest.
StartsSeen(ss) ==
  [c \in 1..Len(ss) |-> IF ss[c].phase = "done" THEN [ss[c] EXCEPT !.anyPaused = FALSE]
                        ELSE ss[c]]

\* History: likewise for the stopDucking calls that have returned.
StopsSeen(st) ==
  [s \in 1..Len(st) |-> IF st[s].pending = {}
                          THEN [st[s] EXCEPT !.failed = FALSE, !.raced = FALSE]
                          ELSE [st[s] EXCEPT !.raced = FALSE]]

\* startDucking(options), up to its first await on an external event.
StartDucking(binaryFound, options) ==
  /\ Len(starts) < MaxStarts /\ NoDuckTimerDue
  /\ IF AlreadyActive(isActive)
       THEN /\ starts' = Append(StartsSeen(starts), [NewStart EXCEPT !.result = Returned(TRUE)])
            /\ request' = [op |-> "duck-audio", options |-> options, args |-> <<>>]
            /\ UNCHANGED <<isActive, fallbackMode, duckerProcess, savedVolumes, procs>>
       ELSE IF platform # "darwin"
       THEN /\ starts' = Append(StartsSeen(starts), [NewStart EXCEPT !.result = Returned(FALSE)])
            /\ request' = [op |-> "duck-audio", options |-> options, args |-> <<>>]
            /\ UNCHANGED <<isActive, fallbackMode, duckerProcess, savedVolumes, procs>>
       ELSE IF ~binaryFound
       THEN /\ starts' = Append(StartsSeen(starts), resolve(NewStart, FALSE))
            /\ fallbackMode' = FallbackModeAfter(NewStart, FALSE, fallbackMode)
            /\ request' = [op |-> "duck-audio", options |-> options, args |-> <<>>]
            /\ UNCHANGED <<isActive, duckerProcess, savedVolumes, procs>>
       ELSE /\ procs' = Append(procs, [state |-> "running", printed |-> FALSE,
                                       killed |-> FALSE, owner |-> Len(starts) + 1])
            /\ duckerProcess' = Len(procs) + 1
            /\ starts' = Append(StartsSeen(starts), [NewStart EXCEPT !.phase = "native",
                                                         !.proc = Len(procs) + 1,
                                                         !.due = START_TIMEOUT_MS])
            /\ request' = [op |-> "duck-audio", options |-> options,
                           args |-> <<SpawnArgs(options)>>]
            /\ UNCHANGED <<isActive, fallbackMode, savedVolumes>>
  /\ stops' = StopsSeen(stops)
  /\ UNCHANGED <<actVars, armVars, availVars, owed, duckLevel, useAdvancedDucking>>

\* stdout "data" with DUCKING_STARTED of helper p.
HelperStarted(p) ==
  /\ NoDuckTimerDue
  /\ procs[p].state = "running" /\ ~procs[p].printed
  /\ procs' = [procs EXCEPT ![p].printed = TRUE]
  /\ LET c == procs[p].owner
         r == starts[c]
     IN IF ~r.started
          THEN /\ isActive' = TRUE
               /\ fallbackMode' = FALSE
               /\ starts' = [starts EXCEPT ![c] = resolve([r EXCEPT !.started = TRUE], TRUE)]
          ELSE UNCHANGED <<isActive, fallbackMode, starts>>
  /\ NoRequest
  /\ UNCHANGED <<actVars, armVars, availVars, owed, duckerProcess, savedVolumes, stops>>

\* "error" of helper p: the process could not be spawned.  Node reports that
\* right after the spawn call, before any signal is sent to the process.
HelperError(p) ==
  /\ NoDuckTimerDue
  /\ procs[p].state = "running" /\ ~procs[p].printed /\ ~procs[p].killed
  /\ procs' = [procs EXCEPT ![p].state = "failed"]
  /\ duckerProcess' = 0
  /\ LET c == procs[p].owner
         r == starts[c]
     IN IF ~r.started
          THEN /\ starts' = [starts EXCEPT ![c] = resolve(r, FALSE)]
               /\ fallbackMode' = FallbackModeAfter(r, FALSE, fallbackMode)
          ELSE UNCHANGED <<starts, fallbackMode>>
  /\ NoRequest
  /\ UNCHANGED <<actVars, armVars, availVars, owed, isActive, savedVolumes, stops>>

\* "exit" of helper p, on its own or after SIGTERM.
HelperExit_NoCleanup(p) ==
  /\ NoDuckTimerDue
  /\ procs[p].state = "running"
  /\ procs' = [procs EXCEPT ![p].state = "exited"]
  /\ LET c == procs[p].owner
         r == starts[c]
     IN IF ~r.started
          THEN /\ starts' = [starts EXCEPT ![c] = resolve(r, FALSE)]
               /\ fallbackMode' = FallbackModeAfter(r, FALSE, fallbackMode)
          ELSE UNCHANGED <<starts, fallbackMode>>
  /\ NoRequest
  /\ UNCHANGED <<actVars, armVars, availVars, owed, savedVolumes, stops, duckerProcess, isActive>>

HelperExit(p) ==
  /\ NoDuckTimerDue
  /\ procs[p].state = "running"
  /\ procs' = [procs EXCEPT ![p].state = "exited"]
  /\ duckerProcess' = 0
  /\ isActive' = FALSE
  /\ LET c == procs[p].owner
         r == starts[c]
     IN IF ~r.started
          THEN /\ starts' = [starts EXCEPT ![c] = resolve(r, FALSE)]
               /\ fallbackMode' = FallbackModeAfter(r, FALSE, fallbackMode)
          ELSE UNCHANGED <<starts, fallbackMode>>
  /\ NoRequest
  /\ UNCHANGED <<actVars, armVars, availVars, owed, savedVolumes, stops>>

\* The clock after the time left on the timer of call c has passed.
Elapsed(ss, c) ==
  [d \in 1..Len(ss) |->
     IF ss[d].due < 0 THEN ss[d]
     ELSE [ss[d] EXCEPT !.due = IF @ > ss[c].due THEN @ - ss[c].due ELSE 0]]

\* The setTimeout callback of start call c, when its delay has passed.
StartTimeout(c) ==
  /\ starts[c].due >= 0
  /\ \A d \in 1..(c - 1) : starts[d].due < 0
  /\ LET ss == Elapsed(starts, c)
         r == [ss[c] EXCEPT !.due = -1]
     IN IF ~r.started
          THEN /\ procs' = KillHandle(procs, duckerProcess)
               /\ duckerProcess' = 0
               /\ starts' = [ss EXCEPT ![c] =
                               [resolve(r, FALSE) EXCEPT !.timedOut = ~r.settled]]
               /\ fallbackMode' = FallbackModeAfter(r, FALSE, fallbackMode)
          ELSE /\ starts' = [ss EXCEPT ![c] = r]
               /\ UNCHANGED <<procs, duckerProcess, fallbackMode>>
  /\ NoRequest
  /\ UNCHANGED <<actVars, armVars, availVars, owed, isActive, savedVolumes, stops>>

\* The call record and isActive after one pauseMusicApp of call c resolved:
\* when it was the last one, Promise.all resolves and
\* startAppleScriptDucking returns true.
ProbeDone(c, key, paused) ==
  LET r == [starts[c] EXCEPT !.probe[key] = "done", !.anyPaused = @ \/ paused]
  IN IF \A k \in Players : r.probe[k] = "done"
       THEN /\ starts' = [starts EXCEPT ![c] = [r EXCEPT !.phase = "done",
                                                         !.probe = NoProbes,
                                                         !.result = Returned(TRUE)]]
            /\ isActive' = FallbackActive(r.anyPaused)
       ELSE /\ starts' = [starts EXCEPT ![c] = r]
            /\ UNCHANGED isActive

\* One pauseMusicApp of call c resolves.  Its first callback (the state
\* check) writes nothing; with state "playing" it issues the pause command,
\* whose callback records the player unless the command failed.
pauseMusicApp(c, key, state, pauseErr) ==
  /\ NoDuckTimerDue
  /\ starts[c].probe[key] = "check"
  /\ savedVolumes' = IF state = "playing" /\ ~pauseErr
                       THEN [savedVolumes EXCEPT ![key] = "was_playing"]
                       ELSE savedVolumes
  /\ owed' = IF state = "playing" /\ ~pauseErr THEN [owed EXCEPT ![key] = @ + 1] ELSE owed
  /\ ProbeDone(c, key, state = "playing" /\ ~pauseErr)
  /\ NoRequest
  /\ UNCHANGED <<actVars, armVars, availVars, fallbackMode, duckerProcess, procs, stops>>

\* resumeMusicApp issues "play" only for a key recorded as "was_playing".
ToResume(saved) == {k \in Players : saved[k] = "was_playing"}

\* History: stopDucking was called, so the start calls that returned before
\* it are no longer "not stopped since".
StopSeen(ss) ==
  [c \in 1..Len(ss) |-> IF ss[c].phase = "done"
                          THEN [ss[c] EXCEPT !.timedOut = FALSE, !.anyPaused = FALSE]
                          ELSE ss[c]]

\* stopDucking: "if (!this.isActive) return".
StopReturnsEarly_Never(active) == FALSE

StopReturnsEarly(active) == ~active

\* One stopDucking call: the play commands it waits for, whether one of them
\* failed, and what restore-audio request ("pending" while it waits).
\* History: raced records that a startDucking call had not returned when
\* this call was received; it is forgotten when the next call is received.
NewStop(keys) ==
  [pending |-> keys, failed |-> FALSE,
   result |-> IF keys = {} THEN Returned(TRUE) ELSE "pending",
   raced |-> \E c \in 1..Len(starts) : starts[c].phase # "done"]

\* stopDucking(), up to its first await on an external event.
StopDucking ==
  /\ Len(stops) < MaxStops /\ NoDuckTimerDue
  /\ starts' = StopSeen(starts)
  /\ IF StopReturnsEarly(isActive)
       THEN /\ stops' = Append(StopsSeen(stops), NewStop({}))
            /\ UNCHANGED <<isActive, fallbackMode, duckerProcess, procs, owed>>
       ELSE IF fallbackMode
       THEN /\ stops' = Append(StopsSeen(stops), NewStop(ToResume(savedVolumes)))
            /\ owed' = [k \in Players |-> IF k \in ToResume(savedVolumes) THEN owed[k] - 1
                                           ELSE owed[k]]
            /\ IF ToResume(savedVolumes) = {}
                 THEN isActive' = FALSE /\ fallbackMode' = FALSE
                 ELSE UNCHANGED <<isActive, fallbackMode>>
            /\ UNCHANGED <<duckerProcess, procs>>
       ELSE /\ procs' = KillHandle(procs, duckerProcess)
            /\ duckerProcess' = 0
            /\ isActive' = FALSE
            /\ fallbackMode' = FALSE
            /\ stops' = Append(StopsSeen(stops), NewStop({}))
            /\ UNCHANGED owed
  /\ NoRequest
  /\ UNCHANGED <<actVars, armVars, availVars, savedVolumes>>

\* resumeMusicApp's exec callback: the error is logged, the record of the key
\* is cleared either way.
RecordAfterResume_KeptOnError(saved, key, err) ==
  IF err THEN saved ELSE [saved EXCEPT ![key] = "null"]

RecordAfterResume(saved, key, err) == [saved EXCEPT ![key] = "null"]

\* Callback of the osascript play command of resumeMusicApp, with or without
\* an error; after the last one stopDucking goes on past its await and
\* restore-audio answers.
ResumeDone(s, key, err) ==
  /\ NoDuckTimerDue
  /\ key \in stops[s].pending
  /\ savedVolumes' = RecordAfterResume(savedVolumes, key, err)
  /\ IF stops[s].pending = {key}
       THEN /\ stops' = [stops EXCEPT ![s].pending = {}, ![s].failed = @ \/ err,
                                      ![s].result = Returned(TRUE)]
            /\ isActive' = FALSE /\ fallbackMode' = FALSE
       ELSE /\ stops' = [stops EXCEPT ![s].pending = @ \ {key}, ![s].failed = @ \/ err]
            /\ UNCHANGED <<isActive, fallbackMode>>
  /\ NoRequest
  /\ UNCHANGED <<actVars, armVars, availVars, owed, duckerProcess, procs, starts>>

ProbeStates == {"playing", "not_playing", "not_running", "error"}

\* No startDucking or stopDucking call is waiting for its result.
CallsSettled ==
  /\ \A c \in 1..Len(starts) : starts[c].phase = "done"
  /\ \A s \in 1..Len(stops) : stops[s].pending = {}

\* The recorder asks for ducking when a recording starts and for the restore
\* when it ends, one request at a time: it waits for the answer to one before
\* it sends the next.  The helper, the players and the timers are not bound
\* by that.
NextDuck ==
  \/ CallsSettled /\ \E binaryFound \in BOOLEAN : StartDucking(binaryFound, NoOptions)
  \/ \E p \in 1..Len(procs) : HelperStarted(p)
  \/ \E p \in 1..Len(procs) : HelperError(p)
  \/ \E p \in 1..Len(procs) : HelperExit(p)
  \/ \E c \in 1..Len(starts) : StartTimeout(c)
  \/ \E c \in 1..Len(starts), k \in Players, st \in ProbeStates, pauseErr \in BOOLEAN :
       pauseMusicApp(c, k, st, pauseErr)
  \/ CallsSettled /\ StopDucking
  \/ \E s \in 1..Len(stops), k \in Players, err \in BOOLEAN : ResumeDone(s, k, err)

\* The controller is idle while the ducking manager is exercised.
InitDuck == Init /\ mode = "tap" /\ hotkey = "F8"

SpecDuck == InitDuck /\ [][NextDuck]_vars

\* The same manager when requests are not awaited: a startDucking or
\* stopDucking call may arrive while earlier calls are still waiting.
NextRace ==
  \/ \E binaryFound \in BOOLEAN : StartDucking(binaryFound, NoOptions)
  \/ \E p \in 1..Len(procs) : HelperStarted(p)
  \/ \E p \in 1..Len(procs) : HelperError(p)
  \/ \E p \in 1..Len(procs) : HelperExit(p)
  \/ \E c \in 1..Len(starts) : StartTimeout(c)
  \/ \E c \in 1..Len(starts), k \in Players, st \in ProbeStates, pauseErr \in BOOLEAN :
       pauseMusicApp(c, k, st, pauseErr)
  \/ StopDucking
  \/ \E s \in 1..Len(stops), k \in Players, err \in BOOLEAN : ResumeDone(s, k, err)

SpecRace == InitDuck /\ [][NextRace]_vars

\* Scheduling: Node runs the setTimeout callback of a start attempt once its
\* delay has passed, and the callback of an osascript exec once the command
\* has ended.  Nothing is assumed of the helper: it may stay silent forever.
TimersFire == WF_vars(\E c \in 1..Len(starts) : StartTimeout(c))

ProbesComplete ==
  WF_vars(\E c \in 1..Len(starts), k \in Players, st \in ProbeStates, pauseErr \in BOOLEAN :
            pauseMusicApp(c, k, st, pauseErr))

SpecDuckFair == SpecDuck /\ TimersFire /\ ProbesComplete

SpecRaceFair == SpecRace /\ TimersFire /\ ProbesComplete

\* getStatus(), called by the get-ducking-status handler; binaryFound is what
\* fs.existsSync finds.
NativeAvailable_Always(binaryFound) == TRUE

NativeAvailable(binaryFound) == platform = "darwin" /\ binaryFound

getStatus(binaryFound) ==
  [isActive |-> isActive, fallbackMode |-> fallbackMode,
   nativeAvailable |-> NativeAvailable(binaryFound)]

GetStatus(binaryFound) ==
  /\ NoDuckTimerDue
  /\ request' = [op |-> "get-ducking-status", binaryFound |-> binaryFound,
                  reply |-> getStatus(binaryFound)]
  /\ UNCHANGED <<actVars, armVars, availVars, isActive, fallbackMode, duckerProcess,
                 savedVolumes, procs, starts, stops, owed, duckLevel, useAdvancedDucking>>

\* configure(options): "if (options.level) this.duckLevel = options.level".
ConfiguredLevel_Kept(options, current) == current

ConfiguredLevel(options, current) ==
  IF options.level # "" THEN options.level ELSE current

\* configure(options): "if (options.advanced !== undefined) ...".
ConfiguredAdvanced(options, current) ==
  IF options.advanced # "undefined" THEN options.advanced = "true" ELSE current

\* configure(options), called by the configure-ducking handler, which answers
\* success.
Configure(options) ==
  /\ NoDuckTimerDue
  /\ duckLevel' = ConfiguredLevel(options, duckLevel)
  /\ useAdvancedDucking' = ConfiguredAdvanced(options, useAdvancedDucking)
  /\ request' = [op |-> "configure-ducking", options |-> options, success |-> TRUE]
  /\ UNCHANGED <<actVars, armVars, availVars, isActive, fallbackMode, duckerProcess,
                 savedVolumes, procs, starts, stops, owed>>

\* The manager and the status requests of the settings panel, which come at
\* any time.
NextStatus ==
  \/ CallsSettled /\ \E binaryFound \in BOOLEAN : StartDucking(binaryFound, NoOptions)
  \/ \E p \in 1..Len(procs) : HelperStarted(p)
  \/ \E p \in 1..Len(procs) : HelperError(p)
  \/ \E p \in 1..Len(procs) : HelperExit(p)
  \/ \E c \in 1..Len(starts) : StartTimeout(c)
  \/ \E c \in 1..Len(starts), k \in Players, st \in ProbeStates, pauseErr \in BOOLEAN :
       pauseMusicApp(c, k, st, pauseErr)
  \/ CallsSettled /\ StopDucking
  \/ \E s \in 1..Len(stops), k \in Players, err \in BOOLEAN : ResumeDone(s, k, err)
  \/ \E binaryFound \in BOOLEAN : GetStatus(binaryFound)

SpecStatus == InitDuck /\ [][NextStatus]_vars

\* The options the recorder may send with duck-audio.
StartOptions == {NoOptions, [level |-> "max", advanced |-> "true"],
                 [level |-> "", advanced |-> "false"]}

\* The manager with its settings: the recorder sends its requests one at a
\* time, with or without options; the settings panel configures at any time.
NextConfig ==
  \/ CallsSettled /\ \E binaryFound \in BOOLEAN, options \in StartOptions :
       StartDucking(binaryFound, options)
  \/ \E p \in 1..Len(procs) : HelperStarted(p)
  \/ \E p \in 1..Len(procs) : HelperError(p)
  \/ \E p \in 1..Len(procs) : HelperExit(p)
  \/ \E c \in 1..Len(starts) : StartTimeout(c)
  \/ \E c \in 1..Len(starts), k \in Players, st \in ProbeStates, pauseErr \in BOOLEAN :
       pauseMusicApp(c, k, st, pauseErr)
  \/ CallsSettled /\ StopDucking
  \/ \E s \in 1..Len(stops), k \in Players, err \in BOOLEAN : ResumeDone(s, k, err)
  \/ \E options \in OptionValues : Configure(options)

SpecConfig == InitDuck /\ [][NextConfig]_vars

\* ============================================================================
\* Process teardown (app "will-quit")
\* ============================================================================

\* hotkeyManager.unregisterAll() / globalShortcut.unregisterAll(): the
\* bindings left registered.
UnregisterAll_KeepsAll(registered) == registered

UnregisterAll(registered) == {}

\* globeKeyManager.stop(): whether the listener still runs.
GlobeStop == FALSE

\* app.on("will-quit"): the global shortcuts, the Globe listener, the
\* low-level listener; then the update manager and the model servers, which
\* are not part of this model.  The handler does not refer to the audio
\* ducking manager.
WillQuit ==
  /\ ~quitting /\ NoTimerDue /\ NoDuckTimerDue
  /\ quitting' = TRUE
  /\ gs' = UnregisterAll(gs)
  /\ globeRunning' = GlobeStop
  /\ winArmed' = WkmStop[1] /\ winHeld' = WkmStop[2]
  /\ UNCHANGED <<platform, mode, hotkey, nChanges, globeHeld, globePressed, ctrlVars,
                 timers, now, queue, ipc, log, histVars, capture, snap, nCapture,
                 availVars, duckVars, helper>>

\* "will-quit" is emitted when the windows are closed and the process is
\* about to end: from then on no callback of the main process runs.
Alive == ~quitting

\* The ducking manager up to the teardown of the process.
NextDuckQuit ==
  \/ Alive /\ CallsSettled /\ \E binaryFound \in BOOLEAN : StartDucking(binaryFound, NoOptions)
  \/ Alive /\ \E p \in 1..Len(procs) : HelperStarted(p)
  \/ Alive /\ \E p \in 1..Len(procs) : HelperError(p)
  \/ Alive /\ \E p \in 1..Len(procs) : HelperExit(p)
  \/ Alive /\ \E c \in 1..Len(starts) : StartTimeout(c)
  \/ Alive /\ \E c \in 1..Len(starts), k \in Players, st \in ProbeStates,
                 pauseErr \in BOOLEAN : pauseMusicApp(c, k, st, pauseErr)
  \/ Alive /\ CallsSettled /\ StopDucking
  \/ Alive /\ \E s \in 1..Len(stops), k \in Players, err \in BOOLEAN : ResumeDone(s, k, err)
  \/ WillQuit

SpecDuckQuit == InitDuck /\ [][NextDuckQuit]_vars

\* The activation controller with its three key sources up to the teardown
\* of the process.  What an adapter reports depends on the adapter alone: it
\* reports for as long as it is armed.
NextQuit ==
  \/ GlobeDown
  \/ Alive /\ GlobeDownResume
  \/ Alive /\ GlobeHoldTimer
  \/ GlobeUp
  \/ Alive /\ GlobeUpResume
  \/ WinKeyDown
  \/ Alive /\ WinKeyDownResume
  \/ Alive /\ WinHoldTimer
  \/ WinKeyUp
  \/ Alive /\ WinKeyUpResume
  \/ GsPress
  \/ Alive /\ GsPressResume
  \/ Alive /\ \E m \in Modes : SetActivationMode(m)
  \/ Alive /\ \E h \in Hotkeys : UpdateHotkey(h)
  \/ Alive /\ ActivationModeChanged
  \/ Alive /\ HotkeyChanged
  \/ Alive /\ HotkeyChangedResume
  \/ Alive /\ Tick
  \/ WillQuit

SpecQuit == Init /\ [][NextQuit]_vars

\* ============================================================================
\* The native helper (macos-audio-ducker.swift)
\*
\* One run of the binary, a step per statement of main() that the parent or
\* a signal can tell apart.  Signals arrive at any time.  A signal whose
\* disposition is the default one ends the process at once; one that is
\* ignored while its dispatch source is not yet resumed may be dropped or
\* kept for the source; one that has a resumed source is handled on the main
\* queue, which runs once main() has entered the run loop.
\* ============================================================================

Signals == {"SIGTERM", "SIGINT"}

Range(f) == {f[i] : i \in DOMAIN f}

LevelNames == {"min", "default", "mid", "max"}

\* Command lines, without the program name: those startNativeDucking builds
\* (the level is whatever string the caller configured) and those of the
\* usage text.
CommandLines ==
  {<<>>, <<"start">>, <<"start", "--advanced">>, <<"start", "--level">>,
   <<"start", "--level", "--advanced">>, <<"stop">>, <<"--help">>, <<"status">>}
  \cup {<<"start", "--level", l>> : l \in LevelNames \cup {"loud"}}
  \cup {<<"start", "--level", l, "--advanced">> : l \in LevelNames \cup {"loud"}}

\* The option loop of main(): "--level" takes the next word, and keeps the
\* level it had when that word is no level name; "--advanced" sets the flag;
\* any other word is skipped.
RECURSIVE ParseOptions(_, _, _)
ParseOptions(args, i, parsed) ==
  IF i > Len(args) THEN parsed
  ELSE IF args[i] = "--level"
       THEN ParseOptions(args, i + 2,
                         IF i + 1 <= Len(args) /\ args[i + 1] \in LevelNames
                         THEN [parsed EXCEPT !.level = args[i + 1]] ELSE parsed)
  ELSE IF args[i] = "--advanced"
       THEN ParseOptions(args, i + 1, [parsed EXCEPT !.advanced = TRUE])
  ELSE ParseOptions(args, i + 1, parsed)

DefaultOptions == [level |-> "default", advanced |-> FALSE]

\* A process just spawned: nothing written, every signal with its default
\* disposition, audio untouched.
Spawned(args) ==
  [pc |-> "main", args |-> args, options |-> DefaultOptions, config |-> "none",
   ducking |-> FALSE, out |-> <<>>, err |-> <<>>, status |-> "running",
   disposition |-> [s \in Signals |-> "default"],
   pending |-> [s \in Signals |-> FALSE], signals |-> 0, startedWhenSignalled |-> FALSE]

\* The helper runs on its own: nothing of the application changes with it.
helperFrame ==
  UNCHANGED <<platform, mode, hotkey, nChanges, globeRunning, quitting, winArmed,
              winHeld, globeHeld, globePressed, ctrlVars, timers, now, queue, ipc,
              log, histVars, restVars>>

\* spawn(binaryPath, args).
HelperSpawn(args) ==
  /\ helper.pc = "none"
  /\ helper' = Spawned(args)
  /\ helperFrame

Exit(h, code) == [h EXCEPT !.pc = "exited", !.status = code, !.ducking = FALSE]

\* main(): the command word.
HelperMain ==
  /\ helper.pc = "main" /\ helper.status = "running"
  /\ helper' =
       IF helper.args = <<>>
       THEN Exit([helper EXCEPT !.out = Append(@, "USAGE")], "exit1")
       ELSE IF helper.args[1] = "start"
       THEN [helper EXCEPT !.pc = "startDucking",
                           !.options = ParseOptions(helper.args, 2, DefaultOptions)]
       ELSE IF helper.args[1] = "stop"
       THEN Exit([helper EXCEPT !.out = Append(@, "HINT")], "exit0")
       ELSE IF helper.args[1] = "--help"
       THEN Exit([helper EXCEPT !.out = Append(@, "USAGE")], "exit0")
       ELSE Exit([helper EXCEPT !.err = Append(@, "Unknown command"),
                                !.out = Append(@, "USAGE")], "exit1")
  /\ helperFrame

\* ducker.startDucking: with macOS 14 the ducking configuration is set, before
\* it voice processing alone; an engine that cannot be set up or started
\* writes its ERROR line and makes the call return false.
HelperStartDucking(macOS14, engineStarts) ==
  /\ helper.pc = "startDucking" /\ helper.status = "running"
  /\ helper' =
       IF engineStarts
       THEN [helper EXCEPT !.pc = "print", !.ducking = TRUE,
                           !.config = IF macOS14 THEN helper.options.level ELSE "basic"]
       ELSE [helper EXCEPT !.pc = "failed", !.err = Append(@, "ERROR")]
  /\ helperFrame

\* print("DUCKING_STARTED"); fflush(stdout).
HelperPrintStarted ==
  /\ helper.pc = "print" /\ helper.status = "running"
  /\ helper' = [helper EXCEPT !.pc = "ignore-SIGTERM", !.out = Append(@, "DUCKING_STARTED")]
  /\ helperFrame

\* The else branch of main: the second ERROR line, exit(1).
HelperStartFailed ==
  /\ helper.pc = "failed" /\ helper.status = "running"
  /\ helper' = Exit([helper EXCEPT !.err = Append(@, "ERROR")], "exit1")
  /\ helperFrame

\* makeSignalSource(signal: s); signal(s, SIG_IGN).
HelperIgnore(s) ==
  /\ helper.pc = "ignore-" \o s /\ helper.status = "running"
  /\ helper' = [helper EXCEPT !.pc = "resume-" \o s, !.disposition[s] = "ignored"]
  /\ helperFrame

\* setEventHandler; resume(): SIGTERM first, then SIGINT, then the run loop.
HelperResume(s) ==
  /\ helper.pc = "resume-" \o s /\ helper.status = "running"
  /\ helper' = [helper EXCEPT !.pc = IF s = "SIGTERM" THEN "ignore-SIGINT" ELSE "runloop",
                              !.disposition[s] = "source"]
  /\ helperFrame

\* The effect of signal s on the process, kept telling whether the signal
\* is still to be handled.
Delivered(h, s, kept) ==
  IF h.disposition[s] = "default"
  THEN [h EXCEPT !.pc = "exited", !.status = "killed", !.ducking = FALSE]
  ELSE IF h.disposition[s] = "ignored" /\ ~kept THEN h
  ELSE [h EXCEPT !.pending[s] = TRUE]

\* The parent's kill("SIGTERM"), or a signal from elsewhere.
HelperSignal(s, kept) ==
  /\ helper.pc # "none" /\ helper.status = "running"
  /\ helper.signals < MaxSignals
  /\ (helper.disposition[s] = "ignored" \/ kept)
  /\ helper' = Delivered([helper EXCEPT !.signals = @ + 1,
                                        !.startedWhenSignalled =
                                          @ \/ "DUCKING_STARTED" \in Range(helper.out)],
                         s, kept)
  /\ helperFrame

\* The event handler of a signal source, on the main queue: stopDucking,
\* print("DUCKING_STOPPED"), exit(0).
HelperHandleSignal(s) ==
  /\ helper.pc = "runloop" /\ helper.status = "running"
  /\ helper.pending[s] /\ helper.disposition[s] = "source"
  /\ helper' = Exit([helper EXCEPT !.out = Append(@, "DUCKING_STOPPED")], "exit0")
  /\ helperFrame

NextHelper ==
  \/ \E args \in CommandLines : HelperSpawn(args)
  \/ HelperMain
  \/ \E macOS14 \in BOOLEAN, engineStarts \in BOOLEAN :
       HelperStartDucking(macOS14, engineStarts)
  \/ HelperPrintStarted
  \/ HelperStartFailed
  \/ \E s \in Signals : HelperIgnore(s)
  \/ \E s \in Signals : HelperResume(s)
  \/ \E s \in Signals, kept \in BOOLEAN : HelperSignal(s, kept)
  \/ \E s \in Signals : HelperHandleSignal(s)

SpecHelper == InitDuck /\ [][NextHelper]_vars


\* ------------------------------------------------------------------ claims

Pids == 1..Len(presses)

\* The commands of source presses[p].src sent from the moment the key-down
\* handler of press p resumed until its key-up handler finished.
During(p) == {i \in (presses[p].lo + 1)..presses[p].hi : log[i].src = presses[p].src}

CountDuring(p, c) == Cardinality({i \in During(p) : log[i].cmd = c})

\* The commands the key-up handler of press p sent.
ByUp(p, c) == {i \in 1..Len(log) : log[i].press = p /\ log[i].via = "up" /\ log[i].cmd = c}

\* Press p was taken in push mode by its key-down and by its key-up handler.
PushPair(p) == presses[p].modeDown = "push" /\ presses[p].modeUp = "push"

\* Press p was taken in tap mode by its key-down and by its key-up handler.
TapPair(p) == presses[p].modeDown = "tap" /\ presses[p].modeUp = "tap"

HeldMs(p) == presses[p].upAt - presses[p].downAt

OneStartThenStop(p) ==
  /\ CountDuring(p, "start-dictation") = 1
  /\ CountDuring(p, "stop-dictation") = 1
  /\ \A i, j \in During(p) :
       (log[i].cmd = "start-dictation" /\ log[j].cmd = "stop-dictation") => i < j

\* C1: in push mode, a key-down/key-up pair whose key was held for at least
\* the hold threshold sends exactly one start-dictation and exactly one
\* stop-dictation, the start before the stop.
C1_HoldStartsAndStopsOnce ==
  \A p \in Pids :
    (PushPair(p) /\ HeldMs(p) >= MIN_HOLD_DURATION_MS) => OneStartThenStop(p)

\* A second press held past the threshold right after a short one has been
\* completed with one start and one stop.
C1_Witness ==
  \E p \in Pids :
    /\ p > 1 /\ PushPair(p - 1) /\ HeldMs(p - 1) < MIN_HOLD_DURATION_MS
    /\ PushPair(p) /\ HeldMs(p) >= MIN_HOLD_DURATION_MS
    /\ OneStartThenStop(p)

\* C2: in push mode, a key-down/key-up pair whose key was released before the
\* hold threshold sends no start-dictation and no stop-dictation, also when it
\* closely follows an earlier short press.
C2_ShortPressSilent ==
  \A p \in Pids :
    (PushPair(p) /\ HeldMs(p) < MIN_HOLD_DURATION_MS) =>
      /\ CountDuring(p, "start-dictation") = 0
      /\ CountDuring(p, "stop-dictation") = 0

\* C3: in push mode, a key-up that arrives before the recording started sends
\* exactly one hide-panel, on the Globe key as on the low-level listener.
C3_TapHidesPanel ==
  \A p \in Pids :
    (PushPair(p) /\ ByUp(p, "stop-dictation") = {}) =>
      Cardinality(ByUp(p, "hide-panel")) = 1

\* C4: in tap mode, a Globe key-down/key-up pair sends exactly one toggle
\* command, sent by the key-down, which arms no timer; the key-up sends no
\* command; the time the key is held does not matter.
C4_TapTogglesOnce ==
  \A p \in Pids :
    (presses[p].src = "globe" /\ TapPair(p)) =>
      /\ CountDuring(p, "toggle-dictation") = 1
      /\ \A i \in During(p) :
           log[i].cmd = "toggle-dictation" => (log[i].press = p /\ log[i].via = "down")
      /\ ~presses[p].armed
      /\ \A i \in 1..Len(log) : ~(log[i].press = p /\ log[i].via = "up")

\* A tap-mode pair held past the hold threshold, and one released at once.
C4_Witness ==
  /\ \E p \in Pids :
       /\ presses[p].src = "globe" /\ TapPair(p)
       /\ HeldMs(p) >= MIN_HOLD_DURATION_MS
       /\ CountDuring(p, "toggle-dictation") = 1
  /\ \E p \in Pids :
       presses[p].src = "globe" /\ TapPair(p) /\ HeldMs(p) < MIN_HOLD_DURATION_MS

\* C5: once the key-up of a press has been processed in push mode, the hold
\* timer that press armed never sends start-dictation (nor sets the recording
\* flag, which the same branch does).
C5_CancelIsDefinitive ==
  \A i \in 1..Len(log) :
    (log[i].cmd = "start-dictation" /\ log[i].via = "timer") => ~log[i].afterUp

\* C6: a key-down received while a session of that source is live and its key
\* still held is ignored: it arms no second hold timer (and so resets
\* nothing and starts nothing).
C6_SecondKeyDownIgnored ==
  \A p \in Pids : presses[p].liveAtDown => ~presses[p].armed

StartStop == SelectSeq(log, LAMBDA e : e.cmd \in {"start-dictation", "stop-dictation"})

\* C7: over every sequence of key, timer, hotkey-change and mode-change events,
\* start-dictation and stop-dictation alternate, beginning with
\* start-dictation.
C7_StartStopAlternate ==
  \A i \in 1..Len(StartStop) :
    StartStop[i].cmd = IF i % 2 = 1 THEN "start-dictation" ELSE "stop-dictation"

\* C8: a press that began in push mode is completed under push semantics by
\* its key-up, whatever the mode is by then: the session is closed and no
\* recording is left running.
C8_InFlightPressKeepsMode ==
  \A p \in Pids :
    (presses[p].modeDown = "push" /\ presses[p].modeUp # "none") => presses[p].closed

C10_AbandonCancelsTimer ==
  \A i \in 1..Len(log) :
    (log[i].cmd = "start-dictation" /\ log[i].via = "timer") => ~log[i].ab

\* A suspended handler of a key event, and the source of its key.
IsKeyHandler(h) == h.kind \in {"globe-down", "globe-up", "key-down", "key-up"}
IsDownHandler(h) == h.kind \in {"globe-down", "key-down"}
HandlerSrc(h) == IF h.kind \in {"globe-down", "globe-up"} THEN "globe" ELSE "win"

\* The key transition of handler g happened before the one of handler h.
PhysicallyBefore(g, h) ==
  \/ g.press < h.press
  \/ g.press = h.press /\ IsDownHandler(g) /\ ~IsDownHandler(h)

DictationCmds == {"show-panel", "start-dictation", "stop-dictation", "toggle-dictation"}

\* C12: from enterCaptureMode until exitCaptureMode no key event of any source
\* sends show-panel, start-dictation, stop-dictation or a toggle command, and
\* no adapter is armed again by a hotkey-changed or activation-mode-changed
\* notification: the low-level listener stays stopped.
C12_CaptureSuspendsAdapters ==
  /\ \A i \in 1..Len(log) : log[i].cap => log[i].cmd \notin DictationCmds
  /\ capture => winArmed = ""

\* A step that receives an exitCaptureMode request, and one that resumes it.
ExitReceived == nCapture' = nCapture + 1 /\ ~capture'
ExitResumed == queue # <<>> /\ Head(queue).kind = "exit-capture" /\ queue' = Tail(queue)

\* C13: exitCaptureMode called when capture mode has already been exited is a
\* no-op: neither the request nor its continuation changes the registered
\* global shortcuts or the binding the low-level listener runs with.
C13_ExitIdempotent ==
  [][/\ (ExitReceived /\ ~capture) => (gs' = gs /\ winArmed' = winArmed)
     /\ (ExitResumed /\ snap.state = "again") => (gs' = gs /\ winArmed' = winArmed)]_vars

\* An enterCaptureMode was followed by its exitCaptureMode, which has run to
\* its end, with no settings change and no other capture request since the
\* enter.
EnterThenExit ==
  snap.state = "restored" /\ snap.changes = nChanges /\ snap.caps + 1 = nCapture

\* C14: enterCaptureMode followed by exitCaptureMode restores the adapters.
\* Without a new hotkey the registered global shortcuts and the binding of the
\* low-level listener are those from before the enter.  With a new hotkey the
\* global shortcut is registered for it (unless it is GLOBE), in push mode the
\* low-level listener runs with it, and no adapter is armed with another
\* binding.
C14_EnterExitRestores ==
  EnterThenExit =>
    IF snap.arg = ""
    THEN gs = snap.gs /\ winArmed = snap.win
    ELSE /\ gs = initializeHotkey(snap.arg)
         /\ winArmed = startWindowsKeyListener(platform, mode, snap.arg)

\* No handler is suspended and no notification is in flight.
Settled == queue = <<>> /\ ipc = <<>>

\* C15: once the startup, hotkey-changed, activation-mode-changed and capture
\* mode operations requested so far have run to their end, every armed adapter
\* (registered global shortcut, running low-level listener) is armed with the
\* currently configured hotkey, hence all with the same binding.
C15_OneBindingArmed ==
  Settled => /\ \A b \in gs : b = hotkey
             /\ winArmed # "" => winArmed = hotkey

\* A step that handles an error or unavailable event of an adapter.
AdapterFailed == nErrors' = nErrors + 1

\* The state the key handlers of every source work with.
keyVars == <<mode, hotkey, winArmed, winHeld, globeHeld, globePressed, ctrlVars,
             timers, queue, ipc, log, capture, gs>>

\* C16: on every error or unavailable event of an adapter the controller marks
\* that source unavailable and sends one notification naming it, and it
\* changes nothing the key handlers of the other sources work with.
C16_AdapterFailureNotFatal ==
  [][AdapterFailed =>
       /\ Len(notices') = Len(notices) + 1
       /\ notices'[Len(notices')].src = (IF platform = "win32" THEN "win" ELSE "globe")
       /\ IF platform = "win32" THEN ~pttAvailable' ELSE globeKeyAlertShown'
       /\ UNCHANGED keyVars]_vars

\* ---------------------------------------------------------------------------
\* Audio ducking claims (SpecDuck)

\* The step is the reception of a startDucking call.
StartReceived == Len(starts') = Len(starts) + 1

\* A start call without its history fields.
Call(r) == [r EXCEPT !.timedOut = FALSE, !.anyPaused = FALSE]

\* No stopDucking call was received and none went on.
StopsUntouched ==
  /\ Len(stops') = Len(stops)
  /\ \A s \in 1..Len(stops) : stops'[s].pending = stops[s].pending

\* C17: startDucking called while ducking is already active returns success at
\* once: it spawns no helper, probes and pauses no player, and leaves isActive,
\* the mode, the helper handle, the paused-player record and every earlier
\* call as they were.
C17_StartWhileActiveNoop ==
  [][StartReceived /\ isActive =>
       /\ starts'[Len(starts')].result = "true"
       /\ starts'[Len(starts')].phase = "done"
       /\ starts'[Len(starts')].proc = 0
       /\ starts'[Len(starts')].due < 0
       /\ \A c \in 1..Len(starts) : Call(starts'[c]) = Call(starts[c])
       /\ StopsUntouched
       /\ UNCHANGED <<isActive, fallbackMode, duckerProcess, savedVolumes, procs>>]_vars

\* A call that returned true without a native attempt and without the
\* fallback, made while ducking was active in fallback mode with a player
\* paused.
C17_Witness ==
  /\ isActive /\ fallbackMode /\ savedVolumes["music"] = "was_playing"
  /\ \E c \in 1..Len(starts) :
       /\ starts[c].result = "true" /\ ~starts[c].settled
       /\ \A d \in 1..Len(starts) : starts[d].phase = "done"

\* The helper of call c was terminated: signalled, or gone.
HelperTerminated(c) ==
  procs[starts[c].proc].killed \/ procs[starts[c].proc].state # "running"

\* C18: when the helper gave no DUCKING_STARTED before the start timeout, the
\* helper is terminated and the fallback runs; once that startDucking has
\* returned, and until stopDucking is called, the manager is active in
\* fallback mode, whenever the exit of the terminated helper arrives.
C18_TimeoutFallsBackUntilStop ==
  \A c \in 1..Len(starts) :
    starts[c].timedOut =>
      /\ HelperTerminated(c)
      /\ starts[c].phase = "done" => isActive /\ fallbackMode

\* The step is a native failure of start call c: the call found no helper
\* binary, or its native promise is settled without a confirmation (spawn
\* error, exit before DUCKING_STARTED, start timeout).
NativeFailed(c) ==
  IF c > Len(starts)
    THEN platform = "darwin" /\ ~isActive /\ starts'[c].proc = 0
    ELSE ~starts[c].settled /\ starts'[c].settled /\ ~starts'[c].started

\* C19: every native failure sends the call into the fallback path (fallback
\* mode set, both players probed), and no call on macOS ever returns failure
\* to duck-audio: the fallback itself never fails there.
C19_NativeFailureFallsBack ==
  [][\A c \in 1..Len(starts') :
       /\ NativeFailed(c) =>
            /\ starts'[c].phase = "probing"
            /\ \A k \in Players : starts'[c].probe[k] = "check"
            /\ fallbackMode'
       /\ starts'[c].result = "false" => platform # "darwin"]_vars

\* One call whose helper could not be spawned and one that found no binary
\* have both returned true.
C19_Witness ==
  \E c, d \in 1..Len(starts) :
    /\ starts[c].proc # 0 /\ procs[starts[c].proc].state = "failed"
    /\ ~starts[c].started /\ starts[c].result = "true"
    /\ starts[d].proc = 0 /\ starts[d].settled /\ starts[d].result = "true"

\* The step is the return of startAppleScriptDucking in start call c.
FallbackReturned(c) ==
  c <= Len(starts) /\ starts[c].phase = "probing" /\ starts'[c].phase = "done"

\* C20: when the fallback of a call paused no player (none playing, or every
\* probe failed), the call still returns success, and at that moment the
\* manager is active in fallback mode and records no paused player.
C20_NothingPlayingStillActive ==
  [][\A c \in 1..Len(starts') :
       FallbackReturned(c) /\ ~starts'[c].anyPaused =>
         /\ starts'[c].result = "true"
         /\ isActive' /\ fallbackMode'
         /\ \A k \in Players : savedVolumes'[k] = "null"]_vars

\* The step is the reception of a stopDucking call.
StopReceived == Len(stops') = Len(stops) + 1

\* C21: stopDucking called while the manager is inactive returns at once, each
\* time it is called: it signals no helper, issues no resume command, and
\* leaves isActive, the mode, the helper handle, the paused-player record and
\* every start call as they were.
C21_StopWhileInactiveNoop ==
  [][StopReceived /\ ~isActive =>
       /\ stops'[Len(stops')].pending = {}
       /\ \A s \in 1..Len(stops) : stops'[s].pending = stops[s].pending
       /\ \A c \in 1..Len(starts) : Call(starts'[c]) = Call(starts[c])
       /\ UNCHANGED <<isActive, fallbackMode, duckerProcess, savedVolumes, procs>>]_vars

\* Two stopDucking calls were received and neither resumed or signalled
\* anything, although the record holds a paused player and a helper was
\* spawned: the manager was inactive both times.
C21_Witness ==
  /\ Len(stops) = 2 /\ ~isActive /\ fallbackMode
  /\ savedVolumes["music"] = "was_playing"
  /\ \E p \in 1..Len(procs) : procs[p].state = "exited"

\* C22: the manager resumes only players it paused: every play command it
\* issues to a player answers a successful pause of that player that no
\* earlier play command has request; so a player found not playing, or whose
\* pause failed, gets no play command on that account.
C22_ResumeOnlyPaused == \A k \in Players : owed[k] >= 0

\* The step is the start of a ducking session: a startDucking call received
\* on macOS while the manager is inactive.
SessionStarts == StartReceived /\ ~isActive /\ platform = "darwin"

\* C23: every ducking session starts with an empty paused-player record, so
\* that a pause recorded in one session is never used when a later session is
\* stopped.
C23_SessionStartsWithEmptyRecord ==
  [][SessionStarts => \A k \in Players : savedVolumes[k] = "null"]_vars

\* The step is the last play callback of stopDucking call s: the call goes on
\* past its await and returns.
StopCompletes(s) ==
  s <= Len(stops) /\ stops[s].pending # {} /\ stops'[s].pending = {}

Ducking(p) == procs[p].state = "running" /\ procs[p].printed

\* C25: stopDucking received in native mode returns in the same turn, without
\* waiting for any exit: the helper that is ducking has been sent the
\* termination signal, the manager is inactive and holds no process handle.
C25_NativeStopDoesNotWait ==
  [][StopReceived /\ isActive /\ ~fallbackMode =>
       /\ stops'[Len(stops')].pending = {}
       /\ stops'[Len(stops')].result = "true"
       /\ ~isActive' /\ duckerProcess' = 0
       /\ \A p \in 1..Len(procs) : Ducking(p) => procs'[p].killed]_vars

\* C26: while ducking stays active its mode does not change: no step taken
\* in an active session that leaves the session active goes from native to
\* fallback or from fallback to native, also when startDucking calls overlap.
C26_ModeHeldWhileActive ==
  [][isActive /\ isActive' => fallbackMode' = fallbackMode]_vars

\* The step answers a get-ducking-status request.
StatusRequested == request'.op = "get-ducking-status"

\* Everything of the ducking manager but the answer just given.
managerVars == <<isActive, fallbackMode, duckerProcess, savedVolumes, procs, starts,
                 stops, owed, duckLevel, useAdvancedDucking>>

\* C27: getStatus answers with the current isActive flag, the current mode
\* and whether native ducking is available (macOS with the helper binary in
\* place), and in whatever state it is called it changes no field of the
\* manager, spawns and signals no helper, and pauses and resumes no player.
C27_GetStatusPureRead ==
  [][StatusRequested =>
       /\ request'.reply.isActive = isActive
       /\ request'.reply.fallbackMode = fallbackMode
       /\ request'.reply.nativeAvailable = (platform = "darwin" /\ request'.binaryFound)
       /\ UNCHANGED managerVars]_vars

\* The status was asked in an active fallback session with a paused player
\* while the helper of an earlier attempt was still running, and the answer
\* said active, fallback, native not available.
C27_Witness ==
  /\ request.op = "get-ducking-status"
  /\ isActive /\ fallbackMode
  /\ \E k \in Players : savedVolumes[k] = "was_playing"
  /\ \E p \in 1..Len(procs) : procs[p].state = "running"
  /\ request.reply = [isActive |-> TRUE, fallbackMode |-> TRUE, nativeAvailable |-> FALSE]

\* The step answers a configure-ducking request.
ConfigureRequested == request'.op = "configure-ducking"

\* The step receives a startDucking call without options that spawns a helper.
SpawnsWithDefaults ==
  request'.op = "duck-audio" /\ request'.options = NoOptions /\ request'.args # <<>>

\* C28: configure sets the default level and the default advanced flag to
\* the values it is given and touches nothing else: isActive, the mode, the
\* helper, the paused-player record and the calls in progress are as before,
\* during an active session as at any other time.  Nothing else writes the
\* defaults, and a startDucking without options spawns the helper with the
\* default level and advanced flag as configure left them.
C28_ConfigureSetsDefaultsOnly ==
  [][/\ ConfigureRequested =>
          /\ UNCHANGED <<isActive, fallbackMode, duckerProcess, savedVolumes, procs,
                         starts, stops, owed>>
          /\ request'.options.level # "" => duckLevel' = request'.options.level
          /\ request'.options.level = "" => duckLevel' = duckLevel
          /\ request'.options.advanced # "undefined" =>
               useAdvancedDucking' = (request'.options.advanced = "true")
          /\ request'.options.advanced = "undefined" =>
               useAdvancedDucking' = useAdvancedDucking
     /\ ~ConfigureRequested => UNCHANGED <<duckLevel, useAdvancedDucking>>
     /\ SpawnsWithDefaults =>
          request'.args[1] = [level |-> duckLevel, advanced |-> useAdvancedDucking]]_vars

\* configure has just set both defaults during an active native session that
\* was started with the initial defaults, after an earlier session.
C28_Witness ==
  /\ request.op = "configure-ducking"
  /\ request.options = [level |-> "max", advanced |-> "true"]
  /\ duckLevel = "max" /\ useAdvancedDucking
  /\ isActive /\ ~fallbackMode /\ duckerProcess # 0
  /\ Len(starts) = 2 /\ Len(stops) = 1

\* The step is the "will-quit" handler.
TornDown == ~quitting /\ quitting'

\* C29: when the process is torn down while ducking is active, the handler
\* leaves the ducking state inactive: the helper that is ducking has been
\* signalled to terminate and every player the fallback paused has been sent
\* its play command.
C29_TeardownStopsDucking ==
  [][TornDown /\ isActive =>
       /\ ~isActive'
       /\ \A p \in 1..Len(procs) : Ducking(p) => procs'[p].killed
       /\ \A k \in Players : owed'[k] <= 0]_vars

\* C30: the teardown of the process leaves no key source armed: no global
\* shortcut is registered, the low-level listener and the Globe listener are
\* stopped; and from then on no key event is taken and no command is sent to
\* the dictation surface.
C30_TeardownDisarmsAdapters ==
  [][quitting' =>
       /\ gs' = {} /\ winArmed' = "" /\ ~globeRunning'
       /\ quitting => (presses' = presses /\ log' = log)]_vars

\* The process was torn down while a key reported by the low-level listener
\* was held, its handler suspended or its hold timer pending, and after the
\* global shortcut had been pressed.
C30_Witness ==
  /\ quitting
  /\ \E p \in 1..Len(presses) : presses[p].src = "win" /\ presses[p].upAt = -1
  /\ \E p \in 1..Len(presses) : presses[p].src = "gs"
  /\ queue # <<>> \/ timers # {}
  /\ gs = {} /\ winArmed = ""

\* The helpers that run and have not been sent SIGTERM.
Live == {p \in 1..Len(procs) : procs[p].state = "running" /\ ~procs[p].killed}

\* The startDucking calls that have not returned.
InFlight == {c \in 1..Len(starts) : starts[c].phase # "done"}

\* C35: a stop request is not lost when it races with a start: when
\* stopDucking was called while a startDucking call was still pending and
\* both calls have settled, the subsystem is inactive, no helper it spawned
\* is still running unsignalled, and no player is left paused by it.
StopRacedStart == \E s \in 1..Len(stops) : stops[s].raced

C35_RacingStopNotLost ==
  (StopRacedStart /\ CallsSettled) =>
    /\ ~isActive
    /\ Live = {}
    /\ \A k \in Players : savedVolumes[k] = "null" /\ owed[k] <= 0

\* C32: while two or more startDucking calls are in flight, at most one
\* helper runs unsignalled, and a helper that does is the one the process
\* handle names.
C32_OverlappingStartsLeakNothing ==
  Cardinality(InFlight) >= 2 =>
    /\ Cardinality(Live) <= 1
    /\ \A p \in Live : duckerProcess = p

\* The step delivers the exit event of helper p.
Exits(p) == procs[p].state = "running" /\ procs'[p].state # "running"

\* C33: the exit event of a helper that stopDucking had signalled, delivered
\* when a later startDucking has succeeded natively with another helper,
\* leaves the subsystem active and holding the handle of that helper.
C33_LateExitKeepsLaterSession ==
  [][\A p \in 1..Len(procs) :
       (/\ Exits(p) /\ procs[p].killed
        /\ isActive /\ ~fallbackMode
        /\ duckerProcess \notin {0, p} /\ Ducking(duckerProcess))
       => (isActive' /\ duckerProcess' = duckerProcess)]_vars

\* The step runs the setTimeout callback of start call c.
TimesOut(c) == starts[c].due >= 0 /\ starts'[c].due < 0

\* C34: the start timeout of an attempt that was resolved before its helper
\* confirmed (the helper exited or failed to spawn) signals no helper of
\* another attempt and leaves an active session active.
C34_TimeoutActsOnOwnAttempt ==
  [][\A c \in 1..Len(starts) :
       (TimesOut(c) /\ starts[c].settled /\ ~starts[c].started) =>
         /\ \A p \in 1..Len(procs) :
              procs[p].owner # c => procs'[p].killed = procs[p].killed
         /\ isActive => isActive']_vars

\* C36: every startDucking call eventually resolves with a boolean, whatever
\* the helper does: the native attempt is settled by the first of helper
\* confirmation, spawn error, helper exit and start timeout, and by nothing
\* after it; the fallback settles the call once every player probe has
\* completed; the value returned never changes afterwards.
Called(c) == c <= Len(starts)

Resolved(c) == Called(c) /\ starts[c].phase = "done" /\ starts[c].result \in {"true", "false"}

SettledOnce(c) ==
  (starts[c].settled =>
     /\ starts'[c].settled
     /\ starts[c].phase = "done" => starts'[c].phase = "done"
     /\ starts'[c].phase # "native")
  /\ (starts[c].result # "pending" => starts'[c].result = starts[c].result)
  /\ (starts[c].phase = "probing" /\ starts'[c].phase = "done"
       => Cardinality({k \in Players : starts[c].probe[k] = "check"}) = 1)

C36_EveryStartResolves ==
  /\ \A c \in 1..MaxStarts : Called(c) ~> Resolved(c)
  /\ [][\A c \in 1..Len(starts) : SettledOnce(c)]_vars

\* A call whose helper never answered: the timeout settled the attempt and
\* the fallback returned.
C36_Witness ==
  \E c \in 1..Len(starts) :
    /\ Resolved(c) /\ starts[c].timedOut
    /\ starts[c].proc # 0 /\ ~procs[starts[c].proc].printed


\* C37: when the helper of an active native session exits on its own, the
\* subsystem becomes inactive and clears its handle; it does not switch to
\* the fallback and pauses no player; and a stopDucking that follows is a
\* no-op that answers success.
ExitsOnItsOwn(p) ==
  /\ Exits(p) /\ ~procs[p].killed /\ procs[p].printed
  /\ isActive /\ ~fallbackMode /\ duckerProcess = p

StopCalled == Len(stops') = Len(stops) + 1

C37_OwnExitEndsSession ==
  [][/\ \A p \in 1..Len(procs) :
          ExitsOnItsOwn(p) =>
            /\ ~isActive' /\ duckerProcess' = 0
            /\ ~fallbackMode'
            /\ savedVolumes' = savedVolumes /\ owed' = owed
            /\ \A c \in 1..Len(starts) : starts'[c].phase = starts[c].phase
     /\ (StopCalled /\ ~isActive) =>
          /\ UNCHANGED <<isActive, fallbackMode, duckerProcess, procs, savedVolumes, owed>>
          /\ stops'[Len(stops')].pending = {}
          /\ stops'[Len(stops')].result = "true"]_vars

\* The helper of the session has exited unsignalled after confirming, and a
\* stopDucking call has returned with the subsystem inactive.
C37_Witness ==
  /\ ~isActive /\ duckerProcess = 0 /\ ~fallbackMode
  /\ Len(procs) = 1 /\ procs[1].state = "exited" /\ procs[1].printed /\ ~procs[1].killed
  /\ Len(starts) = 1 /\ starts[1].result = "true"
  /\ Len(stops) = 1 /\ stops[1].result = "true"


\* C38: the low-level key listener is armed only when it is relevant: once
\* the startup, activation-mode-changed, hotkey-changed and capture-mode
\* operations requested so far have run, the listener is running only if the
\* activation mode is push and the hotkey is non-empty and not GLOBE; in tap
\* mode it is stopped.
ListenerRunning == winArmed # ""

C38_ListenerOnlyWhenRelevant ==
  Settled =>
    /\ ListenerRunning => (mode = "push" /\ isValidHotkey(hotkey))
    /\ mode = "tap" => ~ListenerRunning


\* C39: every key-down that opens a session requests the panel be shown,
\* and before any start-dictation or toggle-dictation of that press: in the
\* command stream each such command, the start-dictation of a hold timer
\* included, comes after the show-panel of the same press.
ShownBefore(i) ==
  \E j \in 1..(i - 1) : log[j].cmd = "show-panel" /\ log[j].press = log[i].press

OpensSession(p) == presses[p].armed

C39_PanelShownFirst ==
  /\ \A i \in 1..Len(log) :
       log[i].cmd \in {"start-dictation", "toggle-dictation"} => ShownBefore(i)
  /\ \A p \in 1..Len(presses) :
       OpensSession(p) => \E j \in 1..Len(log) : log[j].cmd = "show-panel" /\ log[j].press = p

\* A hold timer has sent start-dictation for a Windows key press.
C39_Witness ==
  \E i \in 1..Len(log) :
    log[i].cmd = "start-dictation" /\ log[i].via = "timer" /\ log[i].src = "win"


\* C40: an unavailable adapter is reported upward once per occurrence: each
\* error or unavailable event of a key source, the first and any later one,
\* adds exactly one availability notification for that source.
C40_ReportedOncePerOccurrence ==
  [][AdapterFailed =>
       /\ Len(notices') = Len(notices) + 1
       /\ notices'[Len(notices')].src = (IF platform = "darwin" THEN "globe" ELSE "win")
       /\ \A i \in 1..Len(notices) : notices'[i] = notices[i]]_vars


\* ---------------------------------------------------------------------------
\* Helper process claims (SpecHelper)

Printed(line) == Cardinality({i \in 1..Len(helper.out) : helper.out[i] = line})

\* C31: a helper whose start succeeded prints DUCKING_STARTED once; one that
\* was sent a termination signal after that and has ended has stopped
\* ducking, printed DUCKING_STOPPED after DUCKING_STARTED and exited with
\* status 0; a helper whose start failed has written an ERROR line, prints no
\* DUCKING_STARTED and does not end with status 0.
C31_HelperWireContract ==
  helper.pc # "none" =>
    /\ Printed("DUCKING_STARTED") <= 1
    /\ helper.pc \in {"ignore-SIGTERM", "resume-SIGTERM", "ignore-SIGINT", "resume-SIGINT",
                      "runloop"} => Printed("DUCKING_STARTED") = 1
    /\ (helper.startedWhenSignalled /\ helper.status # "running") =>
         /\ helper.status = "exit0"
         /\ helper.out = <<"DUCKING_STARTED", "DUCKING_STOPPED">>
         /\ ~helper.ducking
    /\ "ERROR" \in Range(helper.err) =>
         /\ Printed("DUCKING_STARTED") = 0
         /\ helper.status # "running" => helper.status # "exit0"

====
